---- MODULE Spec2Model ----
(***************************************************************************)
(* chatGPT fighter (src/src/renderer.js): the deterministic lockstep       *)
(* fighter.  Two peers (0 = host, fighter 0; 1 = joiner, fighter 1) each   *)
(* own a copy of the Game module's state; Net is a pair of ordered         *)
(* reliable queues.  All simulation units are fixed point (FP = 100).      *)
(***************************************************************************)
EXTENDS Integers, Sequences, FiniteSets, TLC

\* ---------------------------------------------------------------- bounds
MaxFrame == 3
MaxKeyEvents == 1
MaxMatches == 2
MaxSimSteps == 20
SimStartFrame == 1800
MaxRenders == 1

\* ------------------------------------------------------- program constants
FP == 100
ARENA_W == 1120
GROUND_Y == 420
FIX_W == ARENA_W * FP
FIX_GROUND == GROUND_Y * FP

IN_L == 1
IN_R == 2
IN_J == 4
IN_P == 8
IN_K == 16
IN_S == 32
IN_B == 64

\* JavaScript's null (winner before a result, and the result of a draw).
null == -1

DefaultInputDelayFrames == 2

Peers == {0, 1}

\* ------------------------------------------------------------ utilities
clamp(v, a, b) ==
    LET lo == IF b < v THEN b ELSE v
    IN IF a > lo THEN a ELSE lo

Max(a, b) == IF a > b THEN a ELSE b
Min(a, b) == IF a < b THEN a ELSE b
Abs(a) == IF a < 0 THEN -a ELSE a

\* (m & bit) !== 0 for a single-bit constant.
HasBit(m, bit) == (m \div bit) % 2 = 1

\* Math.floor(n * 0.35) in IEEE doubles, for integer 0 <= n < 1300: the double
\* nearest 0.35 lies below 0.35, and for these n the product rounds below the
\* integer n * 35 / 100.
Floor035(n) ==
    IF n \in {180, 340, 360, 660, 680, 700, 720}
    THEN (n * 35) \div 100 - 1
    ELSE (n * 35) \div 100

\* ----------------------------------------------- 32-bit integer arithmetic
\* A 32-bit value is kept as the signed integer JavaScript's (x | 0) yields and
\* is operated on as two unsigned 16-bit halves.
W16 == 65536
Hi16(x) == (x \div W16) % W16
Lo16(x) == x % W16
FromHalves(hi, lo) ==
    IF hi >= 32768 THEN (hi - W16) * W16 + lo ELSE hi * W16 + lo

\* `const x = v; ...`: v is evaluated once and Body sees its value.
Bind(v, Body(_)) == CHOOSE r \in {Body(x) : x \in {v}} : TRUE

RECURSIVE Xor16(_, _, _)
Xor16(a0, b0, n) ==
    IF n = 0 THEN 0
    ELSE Bind(<<a0, b0>>, LAMBDA p :
           ((p[1] + p[2]) % 2) + 2 * Xor16(p[1] \div 2, p[2] \div 2, n - 1))

\* x ^= x << 13; x ^= x >>> 17; x ^= x << 5; return x | 0
xorshift32(x) ==
    Bind(<<Hi16(x), Lo16(x)>>, LAMBDA a :
    \* x << 13
    Bind(<<Xor16(a[1], ((a[1] % 8) * 8192 + a[2] \div 8) % W16, 16),
           Xor16(a[2], (a[2] % 8) * 8192, 16)>>, LAMBDA b :
    \* x >>> 17
    Bind(<<b[1], Xor16(b[2], b[1] \div 2, 16)>>, LAMBDA c :
    \* x << 5
    FromHalves(Xor16(c[1], ((c[1] % 2048) * 32 + c[2] \div 2048) % W16, 16),
               Xor16(c[2], (c[2] % 2048) * 32, 16)))))

\* Math.floor(rand01() * n) for the seed value s already advanced:
\* floor((s >>> 0) * n / 2^32), exact in doubles for n < 2^10.
RandFloor(s, n) == (Hi16(s) * n + (Lo16(s) * n) \div W16) \div W16

\* ------------------------------------------------------------ characters
\* The gameplay-relevant part of a validated character: the seven stats and the
\* two move parameters.  Patch and Null are the two default characters.
CharPatch ==
    [stats |-> [health |-> 5, attack |-> 5, defense |-> 5, speed |-> 5,
                jump |-> 5, special |-> 5, range |-> 4],
     moves |-> [projectileSpeed |-> 12, projectileSize |-> 14]]

CharNull ==
    [stats |-> [health |-> 6, attack |-> 6, defense |-> 6, speed |-> 4,
                jump |-> 4, special |-> 4, range |-> 4],
     moves |-> [projectileSpeed |-> 10, projectileSize |-> 16]]

\* CharacterSpec: the stat names, the range of a stat and the budget of a
\* character.
StatMin == 3
StatMax == 9
StatNames == {"health", "attack", "defense", "speed", "jump", "special", "range"}
Budget == 34

\* A character as pasted or received (raw) carries its numbers in tenths, so
\* that 45 is the JSON number 4.5; a normalized character carries whole
\* numbers.  asJson is the raw form of a normalized character after
\* JSON.stringify and JSON.parse.
asJson(char) ==
    [stats |-> [k \in StatNames |-> 10 * char.stats[k]],
     moves |-> [projectileSpeed |-> 10 * char.moves.projectileSpeed,
                projectileSize |-> 10 * char.moves.projectileSize]]

\* v = Math.round(v); v = clamp(v, lo, hi) for v in tenths (Math.round rounds
\* a half up).
roundClamp(v, lo, hi) == clamp((v + 5) \div 10, lo, hi)

\* A variant of the validation that rounds the projectile speed up by
\* Math.floor(v) + 1.
validateAndNormalizeCharacterSpeedUp(raw) ==
    LET normStats == [k \in StatNames |-> roundClamp(raw.stats[k], StatMin, StatMax)]
        sum == normStats.health + normStats.attack + normStats.defense + normStats.speed
               + normStats.jump + normStats.special + normStats.range
    IN [ok |-> sum <= Budget,
        character |->
          [stats |-> normStats,
           moves |-> [projectileSpeed |-> clamp(raw.moves.projectileSpeed \div 10 + 1, 6, 16),
                      projectileSize |-> roundClamp(raw.moves.projectileSize, 8, 18)]]]

\* validateAndNormalizeCharacter for a raw character whose texts (name,
\* tagline, palette, specialName) are well-formed: the only error left is the
\* budget.
validateAndNormalizeCharacter(raw) ==
    LET normStats == [k \in StatNames |-> roundClamp(raw.stats[k], StatMin, StatMax)]
        sum == normStats.health + normStats.attack + normStats.defense + normStats.speed
               + normStats.jump + normStats.special + normStats.range
    IN [ok |-> sum <= Budget,
        character |->
          [stats |-> normStats,
           moves |-> [projectileSpeed |-> roundClamp(raw.moves.projectileSpeed, 6, 16),
                      projectileSize |-> roundClamp(raw.moves.projectileSize, 8, 18)]]]

\* A variant of derivedStats in which a healthier fighter runs slower.
derivedStatsHeavy(stats) ==
    [maxHP |-> 900 + stats.health * 55,
     atk |-> 8 + stats.attack * 2,
     def |-> 8 + stats.defense * 2,
     run |-> 220 + stats.speed * 18 - stats.health * 2,
     jump |-> 520 + stats.jump * 20,
     meterGain |-> 8 + stats.special * 2,
     range |-> 18 + stats.range * 4,
     projBonus |-> stats.range]

derivedStats(stats) ==
    [maxHP |-> 900 + stats.health * 55,
     atk |-> 8 + stats.attack * 2,
     def |-> 8 + stats.defense * 2,
     run |-> 220 + stats.speed * 18,
     jump |-> 520 + stats.jump * 20,
     meterGain |-> 8 + stats.special * 2,
     range |-> 18 + stats.range * 4,
     projBonus |-> stats.range]

\* deriveVisuals: only the silhouette reaches the simulation (the body size).
silhouette(char) ==
    LET bulkyScore == (char.stats.health + char.stats.defense) - char.stats.speed
        nimbleScore == char.stats.speed + char.stats.jump - char.stats.health
    IN IF bulkyScore >= 6 THEN "bulky"
       ELSE IF nimbleScore >= 6 THEN "nimble"
       ELSE "balanced"

makeFighter(i, x, y, char, d) ==
    LET sil == silhouette(char)
        baseW == 42 * FP
        baseH == 106 * FP
        w0 == IF sil = "bulky" THEN baseW + 10 * FP
              ELSE IF sil = "nimble" THEN baseW - 6 * FP ELSE baseW
        h0 == IF sil = "bulky" THEN baseH + 12 * FP
              ELSE IF sil = "nimble" THEN baseH - 4 * FP ELSE baseH
        w1 == w0 + (char.stats.health - 5) * 2 * FP + (char.stats.defense - 5) * 1 * FP
                 - (char.stats.speed - 5) * 1 * FP
        h1 == h0 + (char.stats.health - 5) * 2 * FP - (char.stats.jump - 5) * 1 * FP
    IN [idx |-> i, char |-> char, d |-> d,
        x |-> x, y |-> y, vx |-> 0, vy |-> 0,
        w |-> clamp(w1, 34 * FP, 62 * FP),
        h |-> clamp(h1, 90 * FP, 140 * FP),
        coyote |-> 0, jumpBuf |-> 0,
        onGround |-> TRUE,
        facing |-> IF i = 0 THEN 1 ELSE -1,
        hp |-> d.maxHP, meter |-> 0,
        state |-> "idle", stateFrame |-> 0,
        stun |-> 0, cooldown |-> 0, specialCD |-> 0,
        lastHitFrame |-> -9999]

\* ------------------------------------------------------------- geometry
\* Rectangles are kept in HALF units (every coordinate doubled): the projectile
\* rectangle's x is p.x - w / 2 with w odd for some sizes, a half-integer in the
\* source, and doubling keeps every comparison exact.
getHurtbox(f) ==
    LET padX == IF f.state = "ko" THEN (f.w * 28) \div 100
                ELSE IF f.state = "hurt" THEN (f.w * 24) \div 100
                ELSE IF f.state = "jump" THEN (f.w * 22) \div 100
                ELSE (f.w * 18) \div 100
        padTop == IF f.state = "ko" THEN 18 * FP ELSE 14 * FP
        padBottom == IF f.state = "jump" THEN 14 * FP ELSE 10 * FP
    IN [x |-> 2 * f.x - f.w + 2 * padX,
        y |-> 2 * ((f.y - f.h) + padTop),
        w |-> 2 * (f.w - padX * 2),
        h |-> 2 * (f.h - padTop - padBottom)]

\* The hitbox of the source (x is the front edge, not yet mirrored by facing), in
\* whole units; hit = FALSE stands for the source's null.
getHitbox(f) ==
    LET range == f.d.range * FP
        frontX2 == 2 * f.x + f.facing * (f.w + 8 * FP)
        midY == f.y - 72 * FP
        highY == f.y - 92 * FP
        lowY == f.y - 52 * FP
    IN IF f.state = "punch" /\ f.stateFrame >= 4 /\ f.stateFrame <= 6
       THEN [hit |-> TRUE, x2 |-> frontX2, y |-> IF f.onGround THEN midY ELSE highY,
             w |-> (range * 9) \div 10, h |-> 20 * FP, dmg |-> 24, type |-> "punch"]
       ELSE IF f.state = "kick" /\ f.stateFrame >= 6 /\ f.stateFrame <= 9
       THEN [hit |-> TRUE, x2 |-> frontX2, y |-> lowY,
             w |-> range + 10 * FP, h |-> 26 * FP, dmg |-> 32, type |-> "kick"]
       ELSE [hit |-> FALSE, x2 |-> 0, y |-> 0, w |-> 0, h |-> 0, dmg |-> 0, type |-> "none"]

aabb(a, b) ==
    /\ a.x < b.x + b.w
    /\ a.x + a.w > b.x
    /\ a.y < b.y + b.h
    /\ a.y + a.h > b.y

hurtboxRect(f) == getHurtbox(f)

getProjectileRect(p) ==
    LET w == (p.w * 85) \div 100
        h == (p.h * 85) \div 100
    IN [x |-> 2 * p.x - w, y |-> 2 * p.y - h, w |-> 2 * w, h |-> 2 * h]

\* ---------------------------------------------------------------- arena
\* The match objects of one Game instance, as one record G:
\*   fighters (0 and 1), projectiles, particles, hitstop, shake, winner, seed.
\* A particle keeps the three values drawn for it (angle in 1/100 rad, speed,
\* life); its position is a cosmetic function of them and is not kept.

\* rand01() three times per particle: angle, speed, life.
makeParticle(s) ==
    Bind(xorshift32(s), LAMBDA s1 :
    Bind(xorshift32(s1), LAMBDA s2 :
    Bind(xorshift32(s2), LAMBDA s3 :
      [seed |-> s3,
       pt |-> [ang |-> RandFloor(s1, 628),
               sp |-> 180 + RandFloor(s2, 240),
               life |-> 18 + RandFloor(s3, 14)]])))

RECURSIVE pushParticles(_, _)
pushParticles(G0, n) ==
    IF n = 0 THEN G0
    ELSE Bind(G0, LAMBDA G :
         Bind(makeParticle(G.seed), LAMBDA r :
           pushParticles([G EXCEPT !.seed = r.seed,
                                   !.particles = Append(@, r.pt)], n - 1)))

\* A variant of the damage formula in which a blocked hit does no damage.
DamageOfBlockedZero(atk, def, baseDmg, kind, isBlocking) ==
    IF isBlocking THEN 0 ELSE clamp((baseDmg * (100 + 3 * (atk - 14))) \div (100 + 2 * (def - 14)), 1, 120)

\* applyDamage(attacker, defender, baseDmg, kind) with attacker = fighters[ai],
\* defender = fighters[1 - ai].
DamageOf(atk, def, baseDmg, kind, isBlocking) ==
    LET atkMul == 100 + 3 * (atk - 14)
        defMul == 100 + 2 * (def - 14)
        dmg0 == (baseDmg * atkMul) \div defMul
        dmg1 == IF isBlocking
                THEN (IF kind = "projectile" THEN (dmg0 * 25) \div 100 ELSE Floor035(dmg0))
                ELSE dmg0
    IN clamp(dmg1, 1, 120)

\* A variant of the stun table with the punch's stun for every kind of hit.
StunFramesOfFlat(kind) == 10

StunFramesOf(kind) ==
    IF kind = "kick" THEN 14 ELSE IF kind = "projectile" THEN 12 ELSE 10

KnockbackOf(atk, kind, isBlocking) ==
    LET kb0 == (IF kind = "kick" THEN 540 ELSE IF kind = "punch" THEN 440 ELSE 480)
               + (atk - 14) * 16
        kb == IF isBlocking THEN Floor035(kb0) ELSE kb0
    IN (kb * FP) \div 60

applyDamage(G0, ai, baseDmg, kind) ==
    Bind(G0, LAMBDA G :
      LET attacker == G.fighters[ai]
          defender == G.fighters[1 - ai]
          isBlocking == defender.state = "block"
          gain == attacker.d.meterGain
          popUp == ~isBlocking /\ defender.onGround
      IN Bind(DamageOf(attacker.d.atk, defender.d.def, baseDmg, kind, isBlocking),
              LAMBDA dmg :
           pushParticles(
             [G EXCEPT
                !.fighters[ai].meter = clamp(@ + gain, 0, 100),
                !.fighters[1 - ai] =
                   [defender EXCEPT
                      !.hp = Max(0, @ - dmg),
                      !.meter = clamp(@ + gain \div 3, 0, 100),
                      !.stun = IF isBlocking THEN @ ELSE Max(@, StunFramesOf(kind)),
                      !.state = IF isBlocking THEN "block" ELSE "hurt",
                      !.stateFrame = 0,
                      !.vx = attacker.facing * KnockbackOf(attacker.d.atk, kind, isBlocking),
                      !.vy = IF popUp THEN Min(@, -520) ELSE @,
                      !.onGround = IF popUp THEN FALSE ELSE @],
                !.hitstop = Max(@, IF isBlocking THEN 2 ELSE 4),
                !.shake = Max(@, IF isBlocking THEN 3 ELSE 6)],
             IF isBlocking THEN 4 ELSE 7)))

\* A variant of spawnProjectile without the meter test: the cost is taken
\* from whatever meter there is.
spawnProjectileNoCheck(G, i) ==
    LET owner == G.fighters[i]
        proj == [ownerIdx |-> owner.idx,
                 x |-> owner.x + owner.facing * (owner.w \div 2 + 18 * FP),
                 y |-> owner.y - 80 * FP,
                 vx |-> (owner.facing * (owner.char.moves.projectileSpeed * 36) * FP) \div 10,
                 w |-> owner.char.moves.projectileSize * FP,
                 h |-> owner.char.moves.projectileSize * FP,
                 dmg |-> 18 + owner.d.projBonus,
                 life |-> 70 + owner.char.stats.range * 6]
    IN [spawned |-> TRUE,
        G |-> [G EXCEPT !.fighters[i].meter = @ - 35,
                        !.projectiles = Append(@, proj)]]

\* A variant of spawnProjectile that refuses only an empty meter.
spawnProjectileAnyMeter(G, i) ==
    IF G.fighters[i].meter < 1
    THEN [spawned |-> FALSE, G |-> G]
    ELSE [spawned |-> TRUE,
          G |-> [spawnProjectileNoCheck(G, i).G
                   EXCEPT !.fighters[i].meter = Max(0, G.fighters[i].meter - 35)]]

\* spawnProjectile(owner) with owner = fighters[i]; spawned tells the caller's
\* `if (spawned)`.
spawnProjectile(G, i) ==
    LET owner == G.fighters[i]
        dir == owner.facing
        spd == owner.char.moves.projectileSpeed
        size == owner.char.moves.projectileSize
        proj == [ownerIdx |-> owner.idx,
                 x |-> owner.x + dir * (owner.w \div 2 + 18 * FP),
                 y |-> owner.y - 80 * FP,
                 vx |-> (dir * (spd * 36) * FP) \div 10,
                 w |-> size * FP,
                 h |-> size * FP,
                 dmg |-> 18 + owner.d.projBonus,
                 life |-> 70 + owner.char.stats.range * 6]
    IN IF owner.meter < 35
       THEN [spawned |-> FALSE, G |-> G]
       ELSE [spawned |-> TRUE,
             G |-> [G EXCEPT !.fighters[i].meter = @ - 35,
                             !.projectiles = Append(@, proj)]]

\* A variant of updateFacing that turns fighter 0 only.
updateFacingFirstOnly(G) ==
    IF G.fighters[0].x < G.fighters[1].x
    THEN [G EXCEPT !.fighters[0].facing = 1]
    ELSE [G EXCEPT !.fighters[0].facing = -1]

updateFacing(G) ==
    LET a == G.fighters[0]
        b == G.fighters[1]
    IN IF a.x < b.x
       THEN [G EXCEPT !.fighters[0].facing = 1, !.fighters[1].facing = -1]
       ELSE [G EXCEPT !.fighters[0].facing = -1, !.fighters[1].facing = 1]

\* integrateFighter is called by stepLogic and defined nowhere in the source; it
\* is modelled from the design's step (8), "gravity and position integration":
\* gravity on an airborne fighter, position += velocity, landing on the ground
\* line.
GRAVITY == 80

integrateFighter(f) ==
    LET vy1 == IF f.onGround THEN f.vy ELSE f.vy + GRAVITY
        y1 == f.y + vy1
        lands == y1 >= FIX_GROUND
    IN [f EXCEPT !.x = @ + f.vx,
                 !.y = IF lands THEN FIX_GROUND ELSE y1,
                 !.vy = IF lands THEN 0 ELSE vy1,
                 !.onGround = lands]

\* ------------------------------------------------------------- stepLogic
\* A variant of canAct that forgets the knocked-out state.
canActStunOnly(f) == f.stun = 0

\* `const canAct = (f.state !== "ko" && f.stun === 0)`
canAct(f) == f.state # "ko" /\ f.stun = 0

\* KO transition
koTransition(f) ==
    IF f.hp <= 0 /\ f.state # "ko"
    THEN [f EXCEPT !.state = "ko", !.stateFrame = 0, !.stun = 0, !.vx = 0]
    ELSE f

\* Cooldowns / stun, coyote + jump buffer
timers(f, m) ==
    [f EXCEPT !.cooldown = IF @ > 0 THEN @ - 1 ELSE @,
              !.specialCD = IF @ > 0 THEN @ - 1 ELSE @,
              !.stun = IF @ > 0 THEN @ - 1 ELSE @,
              !.coyote = IF f.onGround THEN 6 ELSE Max(0, @ - 1),
              !.jumpBuf = IF HasBit(m, IN_J) THEN 6 ELSE Max(0, @ - 1)]

\* Block (only on ground)
blockStage(f, m) ==
    LET wantsBlock == HasBit(m, IN_B) /\ f.onGround /\ canAct(f) /\ f.state # "hurt"
    IN IF wantsBlock
       THEN (IF f.state # "block" THEN [f EXCEPT !.state = "block", !.stateFrame = 0] ELSE f)
       ELSE IF f.state = "block"
       THEN [f EXCEPT !.state = "idle", !.stateFrame = 0]
       ELSE f

\* `canAct && !inAttack && !inHurt && f.state !== "block"`: the three flags were
\* taken from the fighter f3 before the block stage, the state is read from
\* the fighter f4 after it.
mayAct(f3, f4) ==
    /\ canAct(f3)
    /\ f3.state \notin {"punch", "kick", "special"}
    /\ f3.state # "hurt"
    /\ f4.state # "block"

\* A variant of the jump that does not look at the ground grace.
jumpStageNoCoyote(f, may) ==
    IF may /\ f.jumpBuf > 0
    THEN [f EXCEPT !.vy = -(1100 + f.char.stats.jump * 110),
                   !.onGround = FALSE,
                   !.state = "jump", !.stateFrame = 0,
                   !.jumpBuf = 0, !.coyote = 0]
    ELSE f

\* Jump (buffer + coyote)
jumpStage(f, may) ==
    IF may /\ f.jumpBuf > 0 /\ f.coyote > 0
    THEN [f EXCEPT !.vy = -(1100 + f.char.stats.jump * 110),
                   !.onGround = FALSE,
                   !.state = "jump", !.stateFrame = 0,
                   !.jumpBuf = 0, !.coyote = 0]
    ELSE f

\* A variant of the attack selection that does not look at the cooldowns.
attackStageNoCooldown(f, may, m) ==
    IF ~may THEN f
    ELSE IF HasBit(m, IN_P)
    THEN [f EXCEPT !.state = "punch", !.stateFrame = 0, !.cooldown = 10]
    ELSE IF HasBit(m, IN_K)
    THEN [f EXCEPT !.state = "kick", !.stateFrame = 0, !.cooldown = 14]
    ELSE IF HasBit(m, IN_S)
    THEN [f EXCEPT !.state = "special", !.stateFrame = 0, !.specialCD = 26]
    ELSE f

\* Attacks
attackStage(f, may, m) ==
    IF ~may THEN f
    ELSE IF HasBit(m, IN_P) /\ f.cooldown = 0
    THEN [f EXCEPT !.state = "punch", !.stateFrame = 0, !.cooldown = 10]
    ELSE IF HasBit(m, IN_K) /\ f.cooldown = 0
    THEN [f EXCEPT !.state = "kick", !.stateFrame = 0, !.cooldown = 14]
    ELSE IF HasBit(m, IN_S) /\ f.specialCD = 0
    THEN [f EXCEPT !.state = "special", !.stateFrame = 0, !.specialCD = 26]
    ELSE f

\* Horizontal movement
moveStage(f, m) ==
    LET inAttack2 == f.state \in {"punch", "kick", "special"}
        canMove == f.state \notin {"ko", "hurt", "block"} /\ ~inAttack2
        left == HasBit(m, IN_L)
        right == HasBit(m, IN_R)
        dir == IF left /\ ~right THEN -1 ELSE IF right /\ ~left THEN 1 ELSE 0
        maxGround == ((520 + f.d.run * 2) * FP) \div 60
        maxAir == (maxGround * 85) \div 100
        accelGround == (maxGround * 28) \div 100
        accelAir == (maxAir * 18) \div 100
        maxV == IF f.onGround THEN maxGround ELSE maxAir
        accel == IF f.onGround THEN accelGround ELSE accelAir
    IN IF ~canMove THEN f
       ELSE IF dir # 0
       THEN [f EXCEPT !.vx = clamp(@ + dir * accel, -maxV, maxV),
                      !.state = IF f.onGround /\ @ # "jump" THEN "run" ELSE @]
       ELSE [f EXCEPT !.state = IF f.onGround /\ @ = "run" THEN "idle" ELSE @]

\* `f.state = f.onGround ? "idle" : "jump"; f.stateFrame = 0`
recovered(f) ==
    [f EXCEPT !.state = IF f.onGround THEN "idle" ELSE "jump", !.stateFrame = 0]

\* Advance animation frame; hurt end, jump land, attack end
stateExits(f7) ==
    Bind([f7 EXCEPT !.stateFrame = @ + 1], LAMBDA f8 :
    Bind(IF f8.state = "hurt" /\ f8.stateFrame > 12 THEN recovered(f8) ELSE f8, LAMBDA f9 :
    Bind(IF f9.state = "jump" /\ f9.onGround /\ f9.stateFrame > 2
         THEN [f9 EXCEPT !.state = "idle", !.stateFrame = 0]
         ELSE f9, LAMBDA f10 :
    Bind(IF f10.state = "punch" /\ f10.stateFrame > 12 THEN recovered(f10) ELSE f10, LAMBDA f11 :
      IF f11.state = "kick" /\ f11.stateFrame > 16 THEN recovered(f11) ELSE f11))))

\* Special timing (spawn projectile on frame 8) for fighter i
specialTiming(G, i) ==
    Bind(IF G.fighters[i].state = "special" /\ G.fighters[i].stateFrame = 8
         THEN spawnProjectile(G, i)
         ELSE [spawned |-> FALSE, G |-> G], LAMBDA sp :
    Bind(IF sp.spawned
         THEN [sp.G EXCEPT !.fighters[i].vx =
                             (@ * 60) \div 100 - sp.G.fighters[i].facing * (6 * FP)]
         ELSE sp.G, LAMBDA G13 :
      IF G13.fighters[i].state = "special" /\ G13.fighters[i].stateFrame > 18
      THEN [G13 EXCEPT !.fighters[i] = recovered(@)]
      ELSE G13))

\* The body of stepLogic's "Update fighters" loop for fighter i with mask m,
\* up to and including the special timing (before integration).
fighterLogic(G, i, m) ==
    Bind(timers(koTransition(G.fighters[i]), m), LAMBDA f3 :
    Bind(blockStage(f3, m), LAMBDA f4 :
    Bind(jumpStage(f4, mayAct(f3, f4)), LAMBDA f5 :
    Bind(attackStage(f5, mayAct(f3, f4), m), LAMBDA f6 :
    Bind(stateExits(moveStage(f6, m)), LAMBDA f12 :
      specialTiming([G EXCEPT !.fighters[i] = f12], i))))))

\* Soft push apart of fighter i and its opponent when their hurtboxes overlap.
pushApart(G, i) ==
    LET f == G.fighters[i]
        opp == G.fighters[1 - i]
        push == 8 * FP
    IN IF aabb(getHurtbox(f), getHurtbox(opp))
       THEN (IF f.x < opp.x
             THEN [G EXCEPT !.fighters[i].x = @ - push, !.fighters[1 - i].x = @ + push]
             ELSE [G EXCEPT !.fighters[i].x = @ + push, !.fighters[1 - i].x = @ - push])
       ELSE G

updateFighter(G, i, m) ==
    Bind(fighterLogic(G, i, m), LAMBDA G1 :
    Bind([G1 EXCEPT !.fighters[i] = integrateFighter(@)], LAMBDA G2 :
      pushApart(G2, i)))

\* A variant of the melee hit without the knocked-out test on the defender.
meleeHitNoKoGate(G, i, frame) ==
    LET a == G.fighters[i]
        hit == getHitbox(a)
        hitRect == [x |-> hit.x2 + (IF a.facing = 1 THEN 0 ELSE -2 * hit.w),
                    y |-> 2 * hit.y, w |-> 2 * hit.w, h |-> 2 * hit.h]
    IN IF hit.hit /\ a.lastHitFrame # frame
          /\ Abs(a.y - G.fighters[1 - i].y) < 140 * FP
          /\ aabb(hitRect, hurtboxRect(G.fighters[1 - i]))
       THEN applyDamage([G EXCEPT !.fighters[i].lastHitFrame = frame], i, hit.dmg, hit.type)
       ELSE G

\* Melee hit of attacker i on fighter 1 - i (one iteration of the melee loop).
meleeHit(G, i, frame) ==
    LET a == G.fighters[i]
        b == G.fighters[1 - i]
        hit == getHitbox(a)
        hitRect == [x |-> hit.x2 + (IF a.facing = 1 THEN 0 ELSE -2 * hit.w),
                    y |-> 2 * hit.y, w |-> 2 * hit.w, h |-> 2 * hit.h]
        verticalClose == Abs(a.y - b.y) < 140 * FP
    IN IF ~hit.hit THEN G
       ELSE IF a.lastHitFrame = frame THEN G
       ELSE IF verticalClose /\ aabb(hitRect, hurtboxRect(b)) /\ b.state # "ko"
       THEN applyDamage([G EXCEPT !.fighters[i].lastHitFrame = frame], i, hit.dmg, hit.type)
       ELSE G

RemoveAt(seq, k) == [j \in 1 .. Len(seq) - 1 |-> IF j < k THEN seq[j] ELSE seq[j + 1]]

\* A variant of the projectile loop that keeps a projectile for one step after
\* its life has run out.
RECURSIVE stepProjectilesOverstay(_, _)
stepProjectilesOverstay(G0, pi) ==
    IF pi = 0 THEN G0
    ELSE Bind(G0, LAMBDA G :
         Bind([G.projectiles[pi] EXCEPT !.x = @ + G.projectiles[pi].vx,
                                        !.life = @ - 1], LAMBDA p :
         Bind([G EXCEPT !.projectiles[pi] = p], LAMBDA G1 :
           LET pr == getProjectileRect(p)
               target == G1.fighters[1 - p.ownerIdx]
           IN IF p.life < 0 \/ pr.x < 2 * (-80 * FP) \/ pr.x > 2 * (FIX_W + 80 * FP)
              THEN stepProjectilesOverstay([G1 EXCEPT !.projectiles = RemoveAt(@, pi)], pi - 1)
              ELSE IF target.state = "ko"
              THEN stepProjectilesOverstay(G1, pi - 1)
              ELSE IF aabb(pr, hurtboxRect(target))
              THEN stepProjectilesOverstay(
                     [applyDamage(G1, p.ownerIdx, p.dmg, "projectile")
                        EXCEPT !.projectiles = RemoveAt(@, pi)], pi - 1)
              ELSE stepProjectilesOverstay(G1, pi - 1))))

\* The projectile loop, from the last projectile (pi = Len) down to the first.
RECURSIVE stepProjectiles(_, _)
stepProjectiles(G0, pi) ==
    IF pi = 0 THEN G0
    ELSE Bind(G0, LAMBDA G :
         Bind([G.projectiles[pi] EXCEPT !.x = @ + G.projectiles[pi].vx,
                                        !.life = @ - 1], LAMBDA p :
         Bind([G EXCEPT !.projectiles[pi] = p], LAMBDA G1 :
           LET pr == getProjectileRect(p)
               target == G1.fighters[1 - p.ownerIdx]
           IN IF p.life <= 0 \/ pr.x < 2 * (-80 * FP) \/ pr.x > 2 * (FIX_W + 80 * FP)
              THEN stepProjectiles([G1 EXCEPT !.projectiles = RemoveAt(@, pi)], pi - 1)
              ELSE IF target.state = "ko"
              THEN stepProjectiles(G1, pi - 1)
              ELSE IF aabb(pr, hurtboxRect(target))
              THEN stepProjectiles(
                     [applyDamage(G1, p.ownerIdx, p.dmg, "projectile")
                        EXCEPT !.projectiles = RemoveAt(@, pi)], pi - 1)
              ELSE stepProjectiles(G1, pi - 1))))

\* The particle loop: every particle ages; those whose life runs out leave.
stepParticles(G) ==
    LET aged == [j \in 1 .. Len(G.particles) |->
                   [G.particles[j] EXCEPT !.life = @ - 1]]
    IN [G EXCEPT !.particles = SelectSeq(aged, LAMBDA pt : pt.life > 0)]

\* A variant of the KO check that awards a double KO to fighter 1.
koCheckNoDraw(G) ==
    IF G.fighters[0].hp <= 0 \/ G.fighters[1].hp <= 0
    THEN [G EXCEPT !.winner = IF G.fighters[0].hp > 0 THEN 0 ELSE 1]
    ELSE G

\* KO check
koCheck(G) ==
    IF G.fighters[0].hp <= 0 \/ G.fighters[1].hp <= 0
    THEN [G EXCEPT !.winner = IF G.fighters[0].hp > 0 THEN 0
                              ELSE IF G.fighters[1].hp > 0 THEN 1
                              ELSE null]
    ELSE G

\* `if (winner)`: null and 0 are both falsy in JavaScript.
winnerTruthy(w) == w # null /\ w # 0

\* The hit part of stepLogic: the melee loop (fighter 0, then fighter 1) and
\* the projectile loop.
resolveHits(G3, frame) ==
    Bind(meleeHit(G3, 0, frame), LAMBDA G4 :
    Bind(meleeHit(G4, 1, frame), LAMBDA G5 :
      stepProjectiles(G5, Len(G5.projectiles))))

\* A variant of stepLogic in which the particles keep ageing during hitstop.
stepLogicAgesInHitstop(G, inputMasks, frame) ==
    IF winnerTruthy(G.winner) THEN G
    ELSE IF G.hitstop > 0 THEN stepParticles([G EXCEPT !.hitstop = @ - 1])
    ELSE Bind(updateFighter(G, 0, inputMasks[1]), LAMBDA G1 :
         Bind(updateFighter(G1, 1, inputMasks[2]), LAMBDA G2 :
         Bind(resolveHits(updateFacing(G2), frame), LAMBDA G6 :
           koCheck(stepParticles(G6)))))

stepLogic(G, inputMasks, frame) ==
    IF winnerTruthy(G.winner) THEN G
    ELSE IF G.hitstop > 0 THEN [G EXCEPT !.hitstop = @ - 1]
    ELSE Bind(updateFighter(G, 0, inputMasks[1]), LAMBDA G1 :
         Bind(updateFighter(G1, 1, inputMasks[2]), LAMBDA G2 :
         Bind(updateFacing(G2), LAMBDA G3 :
         Bind(resolveHits(G3, frame), LAMBDA G6 :
         Bind(stepParticles(G6), LAMBDA G7 :
           koCheck(G7))))))

\* ----------------------------------------------------------------- state
VARIABLES
    running,        \* [Peers -> BOOLEAN]   Game.running
    screen,         \* [Peers -> {"lobby", "game", "result"}]  the active UI screen
    frame,          \* [Peers -> Nat]       Game.frame
    inputDelay,     \* [Peers -> Nat]       Game.inputDelay
    localKeyState,  \* [Peers -> SUBSET KeyCodes]
    localInputs,    \* [Peers -> [frames -> mask]]
    remoteInputs,   \* [Peers -> [frames -> mask]]
    stalled,        \* [Peers -> BOOLEAN]
    stallFrames,    \* [Peers -> Nat]
    arena,          \* [Peers -> G]  fighters, projectiles, particles, hitstop,
                    \*               shake, winner, seed of each Game instance
    chan,           \* [Peers -> Seq(message)]  messages in flight TO each peer
    matchNo,        \* history: resetMatch calls of each peer so far
    stepLog,        \* history: the <<frame, masks>> of each stepLogic call of
                    \*          the peer's current match
    keyEvents,      \* history: key events so far (bounded by MaxKeyEvents)
    renders,        \* history: renders of each peer that drew a camera shake
    simInputs,      \* the mask pairs fed to the two stand-alone simulations
    lost,           \* history: messages the data channel has dropped so far
    acc,            \* Game.acc of instance 0: real time not yet simulated
    activeChar,     \* [Peers -> character]  the stored active character
    localHello,     \* [Peers -> character or NoChar]  localHello.char
    remoteHello,    \* [Peers -> character or NoChar]  remoteHello.char
    settings,       \* [Peers -> Nat]  settings.inputDelayFrames
    stopTimers,     \* [Peers -> Seq(match number)]  the pending timers set by
                    \*   the KO check, oldest first, each with the match
                    \*   that scheduled it (history)
    lastTime        \* Game.lastTime of instance 0: time of its last gameLoop call
                    \* (both in thirds of a millisecond, and followed in LoopSpec
                    \* only: the other specifications take every interleaving
                    \* of ticks and leave real time out)

vars == <<running, screen, frame, inputDelay, localKeyState, localInputs,
          remoteInputs, stalled, stallFrames, arena, chan, matchNo, stepLog,
          keyEvents, renders, simInputs, lost, acc, lastTime,
          activeChar, localHello, remoteHello, settings, stopTimers>>

KeyCodes == {"KeyA", "KeyD", "KeyW", "KeyJ", "KeyK", "KeyL", "KeyS"}

\* buildLocalInputMask over a set of pressed key codes
buildLocalInputMask(keys) ==
    (IF "KeyA" \in keys THEN IN_L ELSE 0)
    + (IF "KeyD" \in keys THEN IN_R ELSE 0)
    + (IF "KeyW" \in keys THEN IN_J ELSE 0)
    + (IF "KeyJ" \in keys THEN IN_P ELSE 0)
    + (IF "KeyK" \in keys THEN IN_K ELSE 0)
    + (IF "KeyL" \in keys THEN IN_S ELSE 0)
    + (IF "KeyS" \in keys THEN IN_B ELSE 0)

EmptyMap == <<>>
Has(map, f) == f \in DOMAIN map
Put(map, f, v) == [g \in DOMAIN map \cup {f} |-> IF g = f THEN v ELSE map[g]]

\* The module-level `let` values of Game before any match.
NoArena ==
    [fighters |-> <<>>, projectiles |-> <<>>, particles |-> <<>>,
     hitstop |-> 0, shake |-> 0, winner |-> null, seed |-> 1]

\* The characters the two players exchanged in their hellos: the host plays
\* the default character Patch, the joiner the default character Null.
HostChar == CharPatch
JoinerChar == CharNull

Msg(t, f, m, seedIn, mt) == [t |-> t, f |-> f, m |-> m, seed |-> seedIn, mt |-> mt]

\* Net.send from peer p: appended to the queue toward the other peer.  The
\* field mt (the sender's match number) is history only: no handler reads it.
RECURSIVE sendPrefill(_, _, _, _)
sendPrefill(q, f, n, mt) ==
    IF f >= n THEN q
    ELSE sendPrefill(Append(q, Msg("in", f, 0, 0, mt)), f + 1, n, mt)

\* The KO check is reached by a step that returns neither at `if (winner)`
\* nor in hitstop.
koCheckRuns(G) == ~winnerTruthy(G.winner) /\ G.hitstop = 0

\* The KO check's `setTimeout(() => { stop(); UI.showResult(...) }, 900)`:
\* the timers pending after a step of match m from arena G to arena Gn.
scheduleStop(pending, G, Gn, m) ==
    IF koCheckRuns(G) /\ (Gn.fighters[0].hp <= 0 \/ Gn.fighters[1].hp <= 0)
    THEN Append(pending, m) ELSE pending

\* resetMatch: the arena part.
resetArena(seedIn, p1Char, p2Char) ==
    [fighters |-> [i \in {0, 1} |->
                    IF i = 0
                    THEN makeFighter(0, 240 * FP, FIX_GROUND, p1Char, derivedStats(p1Char.stats))
                    ELSE makeFighter(1, 880 * FP, FIX_GROUND, p2Char, derivedStats(p2Char.stats))],
     projectiles |-> <<>>, particles |-> <<>>,
     hitstop |-> 0, shake |-> 0, winner |-> null, seed |-> seedIn]

\* resetMatch on peer p, followed by Game.start; ch is the channel state the
\* delay prefill is sent on.
ResetAndStart(p, seedIn, ch) ==
    /\ frame' = [frame EXCEPT ![p] = 0]
    /\ inputDelay' = [inputDelay EXCEPT ![p] = settings[p]]
    /\ localInputs' = [localInputs EXCEPT ![p] =
                         [f \in 0 .. settings[p] - 1 |-> 0]]
    /\ remoteInputs' = [remoteInputs EXCEPT ![p] = EmptyMap]
    /\ chan' = [ch EXCEPT ![1 - p] =
                  sendPrefill(@, 0, settings[p], matchNo[p] + 1)]
    /\ stalled' = [stalled EXCEPT ![p] = FALSE]
    /\ stallFrames' = [stallFrames EXCEPT ![p] = 0]
    /\ arena' = [arena EXCEPT ![p] = resetArena(seedIn, HostChar, JoinerChar)]
    /\ running' = [running EXCEPT ![p] = TRUE]
    /\ screen' = [screen EXCEPT ![p] = "game"]
    /\ matchNo' = [matchNo EXCEPT ![p] = @ + 1]
    /\ stepLog' = [stepLog EXCEPT ![p] = <<>>]

\* ---------------------------------------------------------------- actions
MaxStall == 1
Seeds == {1}
\* The keys pressed and released in the lockstep specification (punch, special).
LockstepKeys == {"KeyJ", "KeyL"}

\* startMatchAsHost: the host sends "start", resets and starts its own game.
StartMatchAsHost(seedIn) ==
    /\ screen[0] = "lobby"
    /\ matchNo[0] < MaxMatches
    /\ ResetAndStart(0, seedIn,
         [chan EXCEPT ![1] = Append(@, Msg("start", 0, 0, seedIn, matchNo[0] + 1))])
    /\ UNCHANGED <<localKeyState, keyEvents, renders, simInputs, lost, acc, lastTime, activeChar, localHello, remoteHello, settings, stopTimers>>

\* A variant of pushRemoteInput in which the last write wins.
pushRemoteInputLastWins(map, f, mask) == Put(map, f, mask)

\* A variant of pushRemoteInput that also fills the frame after f.
pushRemoteInputSpill(map, f, mask) ==
    IF ~Has(map, f) THEN Put(Put(map, f, mask), f + 1, mask) ELSE map

pushRemoteInput(map, f, mask) == IF ~Has(map, f) THEN Put(map, f, mask) ELSE map

\* A variant of resendLocalInputs that resends the requested frame only.
resendLocalInputsOne(q, map, f, to, mt) ==
    IF Has(map, f) THEN Append(q, Msg("in", f, map[f], 0, mt)) ELSE q

\* resendLocalInputs(from, count): the "in" messages appended to queue q.
RECURSIVE resendLocalInputs(_, _, _, _, _)
resendLocalInputs(q, map, f, to, mt) ==
    IF f >= to \/ \A g \in DOMAIN map : g < f THEN q
    ELSE resendLocalInputs(
           IF Has(map, f) THEN Append(q, Msg("in", f, map[f], 0, mt)) ELSE q,
           map, f + 1, to, mt)

\* wireNet.onMessage on peer p for the message at the head of its queue.
OnMessage(p) ==
    /\ chan[p] # <<>>
    /\ LET msg == Head(chan[p])
           rest == [chan EXCEPT ![p] = Tail(@)]
       IN CASE msg.t = "start" ->
                 \* startMatchAsJoiner (the joiner is fighter 1)
                 /\ ResetAndStart(p, msg.seed, rest)
                 /\ UNCHANGED <<localKeyState, keyEvents, renders, simInputs, lost, acc, lastTime, activeChar, localHello, remoteHello, settings, stopTimers>>
            [] msg.t = "req" ->
                 /\ chan' = [rest EXCEPT ![1 - p] =
                               resendLocalInputs(@, localInputs[p], msg.f, msg.f + 180,
                                                 matchNo[p])]
                 /\ UNCHANGED <<running, screen, frame, inputDelay, localKeyState,
                                localInputs, remoteInputs, stalled, stallFrames, arena,
                                matchNo, stepLog, keyEvents, renders, simInputs, lost, acc, lastTime, activeChar, localHello, remoteHello, settings, stopTimers>>
            [] msg.t = "in" ->
                 /\ remoteInputs' = [remoteInputs EXCEPT ![p] =
                                       pushRemoteInput(@, msg.f, msg.m)]
                 /\ chan' = rest
                 /\ UNCHANGED <<running, screen, frame, inputDelay, localKeyState,
                                localInputs, stalled, stallFrames, arena,
                                matchNo, stepLog, keyEvents, renders, simInputs, lost, acc, lastTime, activeChar, localHello, remoteHello, settings, stopTimers>>

\* Variants of lockstepCanAdvance: one that looks at the local map only, one
\* that never stalls.
lockstepCanAdvanceLocalOnly(li, ri, f) == Has(li, f)
lockstepCanAdvanceAlways(li, ri, f) == TRUE

lockstepCanAdvance(li, ri, f) == Has(li, f) /\ Has(ri, f)

\* getInputsForFrame on peer p, whose localPlayerIndex is p (0 host, 1 joiner);
\* Map.get of a missing frame is undefined and (undefined | 0) is 0.
Get0(map, f) == IF Has(map, f) THEN map[f] ELSE 0
getInputsForFrame(p, li, ri, f) ==
    IF p = 0 THEN <<Get0(li, f), Get0(ri, f)>> ELSE <<Get0(ri, f), Get0(li, f)>>

\* A variant of recordLocalInput in which a later tick overwrites the entry.
recordLocalInputOverwrite(li, sendFrame, mask) == Put(li, sendFrame, mask)

\* A variant of recordLocalInput that files the mask one frame late.
recordLocalInputLate(li, sendFrame, mask) ==
    IF ~Has(li, sendFrame) THEN Put(li, sendFrame + 1, mask) ELSE li

\* `if (!localInputs.has(sendFrame)) localInputs.set(sendFrame, mask)`
recordLocalInput(li, sendFrame, mask) ==
    IF ~Has(li, sendFrame) THEN Put(li, sendFrame, mask) ELSE li

\* A variant of resendDue that asks on every stalled tick from the 60th on.
resendDueFromThreshold(stallCount) == stallCount >= 60

\* A variant of resendDue that never asks.
resendDueNever(stallCount) == FALSE

\* `stallFrames % 60 === 0`, tested after `stallFrames++`
resendDue(stallCount) == stallCount % 60 = 0

\* tickOneFrame on peer p.  A tick that advances is taken while the peer is
\* below frame maxFrame, a tick that stalls while its stall counter is below
\* maxStall.
Tick(p, maxFrame, maxStall) ==
    /\ running[p]
    /\ LET sendFrame == frame[p] + inputDelay[p]
           mask == buildLocalInputMask(localKeyState[p])
           record == ~Has(localInputs[p], sendFrame)
           li == recordLocalInput(localInputs[p], sendFrame, mask)
           q1 == IF record
                 THEN Append(chan[1 - p], Msg("in", sendFrame, mask, 0, matchNo[p]))
                 ELSE chan[1 - p]
       IN /\ localInputs' = [localInputs EXCEPT ![p] = li]
          /\ IF ~lockstepCanAdvance(li, remoteInputs[p], frame[p])
             THEN /\ stallFrames[p] < maxStall
                  /\ stalled' = [stalled EXCEPT ![p] = TRUE]
                  /\ stallFrames' = [stallFrames EXCEPT ![p] = @ + 1]
                  /\ chan' = [chan EXCEPT ![1 - p] =
                                IF resendDue(stallFrames[p] + 1)
                                THEN Append(q1, Msg("req", frame[p], 0, 0, matchNo[p]))
                                ELSE q1]
                  /\ UNCHANGED <<frame, arena, stepLog, acc, lastTime, activeChar, localHello, remoteHello, settings, stopTimers>>
             ELSE LET masks == getInputsForFrame(p, li, remoteInputs[p], frame[p])
                  IN /\ frame[p] < maxFrame
                     /\ stalled' = [stalled EXCEPT ![p] = FALSE]
                     /\ stallFrames' = [stallFrames EXCEPT ![p] = 0]
                     /\ chan' = [chan EXCEPT ![1 - p] = q1]
                     /\ arena' = [arena EXCEPT ![p] = stepLogic(@, masks, frame[p])]
                     /\ frame' = [frame EXCEPT ![p] = @ + 1]
                     /\ stopTimers' = [stopTimers EXCEPT ![p] =
                                          scheduleStop(@, arena[p], arena'[p], matchNo[p])]
                     /\ stepLog' = [stepLog EXCEPT ![p] =
                                      Append(@, [f |-> frame[p], masks |-> masks])]
    /\ UNCHANGED <<running, screen, inputDelay, localKeyState, remoteInputs,
                   matchNo, keyEvents, renders, simInputs, lost, acc, lastTime, activeChar, localHello, remoteHello, settings>>

\* tickOneFrame on peer p (called by gameLoop while running).
TickOneFrame(p) == Tick(p, MaxFrame, MaxStall)

\* A variant of the camera shake that also runs down the hitstop timer.
renderShakeHitstop(G) ==
    IF G.shake > 0
    THEN [G EXCEPT !.seed = xorshift32(xorshift32(@)), !.shake = @ - 1,
                   !.hitstop = IF @ > 0 THEN @ - 1 ELSE 0]
    ELSE G

\* render's camera shake: two rand01() draws and shake-- while shake > 0.
renderShake(G) ==
    IF G.shake > 0
    THEN [G EXCEPT !.seed = xorshift32(xorshift32(@)), !.shake = @ - 1]
    ELSE G

\* render on peer p (called by gameLoop after the ticks, while running).
Render(p) ==
    /\ running[p]
    /\ arena[p].shake > 0 => renders[p] < MaxRenders
    /\ arena' = [arena EXCEPT ![p] = renderShake(@)]
    /\ renders' = [renders EXCEPT ![p] = IF arena[p].shake > 0 THEN @ + 1 ELSE @]
    /\ UNCHANGED <<running, screen, frame, inputDelay, localKeyState, localInputs,
                   remoteInputs, stalled, stallFrames, chan, matchNo, stepLog,
                   keyEvents, simInputs, lost, acc, lastTime, activeChar, localHello, remoteHello, settings, stopTimers>>

\* keydown / keyup on the game screen: Game.setKey(code, down).
SetKey(p, code, down) ==
    /\ screen[p] = "game"
    /\ keyEvents < MaxKeyEvents
    /\ down # (code \in localKeyState[p])
    /\ localKeyState' = [localKeyState EXCEPT ![p] =
                           IF down THEN @ \cup {code} ELSE @ \ {code}]
    /\ keyEvents' = keyEvents + 1
    /\ UNCHANGED <<running, screen, frame, inputDelay, localInputs, remoteInputs,
                   stalled, stallFrames, arena, chan, matchNo, stepLog, renders,
                   simInputs, lost, acc, lastTime, activeChar, localHello, remoteHello, settings, stopTimers>>

\* btnLeaveMatch: Game.stop() and back to the lobby.
LeaveMatch(p) ==
    /\ screen[p] = "game"
    /\ running' = [running EXCEPT ![p] = FALSE]
    /\ screen' = [screen EXCEPT ![p] = "lobby"]
    /\ UNCHANGED <<frame, inputDelay, localKeyState, localInputs, remoteInputs,
                   stalled, stallFrames, arena, chan, matchNo, stepLog, keyEvents,
                   renders, simInputs, lost, acc, lastTime, activeChar, localHello, remoteHello, settings, stopTimers>>

\* The state after boot with the data channel open and the hellos exchanged.
Init ==
    /\ running = [p \in Peers |-> FALSE]
    /\ screen = [p \in Peers |-> "lobby"]
    /\ frame = [p \in Peers |-> 0]
    /\ inputDelay = [p \in Peers |-> DefaultInputDelayFrames]
    /\ localKeyState = [p \in Peers |-> {}]
    /\ localInputs = [p \in Peers |-> EmptyMap]
    /\ remoteInputs = [p \in Peers |-> EmptyMap]
    /\ stalled = [p \in Peers |-> FALSE]
    /\ stallFrames = [p \in Peers |-> 0]
    /\ arena = [p \in Peers |-> NoArena]
    /\ chan = [p \in Peers |-> <<>>]
    /\ matchNo = [p \in Peers |-> 0]
    /\ stepLog = [p \in Peers |-> <<>>]
    /\ keyEvents = 0
    /\ renders = [p \in Peers |-> 0]
    /\ simInputs = <<>>
    /\ lost = 0
    /\ acc = 0
    /\ lastTime = 0
    /\ activeChar = [p \in Peers |-> IF p = 0 THEN HostChar ELSE JoinerChar]
    /\ localHello = [p \in Peers |-> IF p = 0 THEN HostChar ELSE JoinerChar]
    /\ remoteHello = [p \in Peers |-> IF p = 0 THEN JoinerChar ELSE HostChar]
    /\ settings = [p \in Peers |-> DefaultInputDelayFrames]
    /\ stopTimers = [p \in Peers |-> <<>>]

Next ==
    \/ \E seedIn \in Seeds : StartMatchAsHost(seedIn)
    \/ \E p \in Peers : OnMessage(p)
    \/ \E p \in Peers : TickOneFrame(p)
    \/ \E p \in Peers : Render(p)
    \/ \E p \in Peers, code \in LockstepKeys, down \in BOOLEAN : SetKey(p, code, down)
    \/ \E p \in Peers : LeaveMatch(p)

Spec == Init /\ [][Next]_vars

\* ------------------------------------------ two stand-alone simulations
\* SimSpec: two Game instances in mid-match, started from the same seed, the
\* same characters and the same arena state, each stepped over the same
\* sequence of mask pairs (simInputs).  Simulation 0 steps a frame first and
\* samples the masks (fighter i's mask is the held key state localKeyState[i]);
\* simulation 1 follows with the same masks.  Simulation 0 is rendered on any
\* schedule; simulation 1 is the reference run that never draws (render returns
\* at once without a canvas context).
SimDistances == {3000, 7000}
SimLowHp == 20
SimHighHp == 600
SimMeters == {34, 35}
HeldKeys == {{}} \cup {{k} : k \in KeyCodes}

\* A mid-match arena, SimStartFrame frames into the match: both fighters idle
\* on the ground, dist apart, with the given health and meter left by the
\* earlier exchanges (hits take health in steps of any size from 1 up and
\* feed both meters; specials spend meter).
simArena(seedIn, dist, hp0, hp1, meter0, meter1) ==
    LET A == resetArena(seedIn, HostChar, JoinerChar)
    IN [A EXCEPT !.fighters[0].x = 500 * FP,
                 !.fighters[1].x = 500 * FP + dist,
                 !.fighters[0].hp = hp0,
                 !.fighters[1].hp = hp1,
                 !.fighters[0].meter = meter0,
                 !.fighters[1].meter = meter1]

SimInit ==
    /\ \E dist \in SimDistances, low0 \in BOOLEAN, low1 \in BOOLEAN, meter \in SimMeters :
         LET hp0 == IF low0 THEN SimLowHp ELSE SimHighHp
             hp1 == IF low1 THEN SimLowHp ELSE SimHighHp
         IN arena = [p \in Peers |-> simArena(1, dist, hp0, hp1, meter, meter)]
    /\ localKeyState \in [Peers -> HeldKeys]
    /\ running = [p \in Peers |-> TRUE]
    /\ screen = [p \in Peers |-> "game"]
    /\ frame = [p \in Peers |-> SimStartFrame]
    /\ inputDelay = [p \in Peers |-> DefaultInputDelayFrames]
    /\ localInputs = [p \in Peers |-> EmptyMap]
    /\ remoteInputs = [p \in Peers |-> EmptyMap]
    /\ stalled = [p \in Peers |-> FALSE]
    /\ stallFrames = [p \in Peers |-> 0]
    /\ chan = [p \in Peers |-> <<>>]
    /\ matchNo = [p \in Peers |-> 1]
    /\ stepLog = [p \in Peers |-> <<>>]
    /\ keyEvents = 0
    /\ renders = [p \in Peers |-> 0]
    /\ simInputs = <<>>
    /\ lost = 0
    /\ acc = 0
    /\ lastTime = 0
    /\ activeChar = [p \in Peers |-> IF p = 0 THEN HostChar ELSE JoinerChar]
    /\ localHello = [p \in Peers |-> IF p = 0 THEN HostChar ELSE JoinerChar]
    /\ remoteHello = [p \in Peers |-> IF p = 0 THEN JoinerChar ELSE HostChar]
    /\ settings = [p \in Peers |-> DefaultInputDelayFrames]
    /\ stopTimers = [p \in Peers |-> <<>>]

\* One frame of simulation a: stepLogic(masks); frame++ (tickOneFrame's
\* advancing path), with the masks of simInputs for that frame.
SimStep(a) ==
    /\ frame[a] - SimStartFrame < MaxSimSteps
    /\ IF a = 0 THEN frame[0] = frame[1] ELSE frame[1] < frame[0]
    /\ LET k == frame[a] - SimStartFrame
           sampled == <<buildLocalInputMask(localKeyState[0]),
                        buildLocalInputMask(localKeyState[1])>>
           masks == IF k < Len(simInputs) THEN simInputs[k + 1] ELSE sampled
       IN /\ simInputs' = IF k < Len(simInputs) THEN simInputs ELSE Append(simInputs, masks)
          /\ arena' = [arena EXCEPT ![a] = stepLogic(@, masks, frame[a])]
          /\ frame' = [frame EXCEPT ![a] = @ + 1]
          /\ stopTimers' = [stopTimers EXCEPT ![a] =
                               scheduleStop(@, arena[a], arena'[a], matchNo[a])]
    /\ UNCHANGED <<running, screen, inputDelay, localKeyState, localInputs, remoteInputs,
                   stalled, stallFrames, chan, matchNo, stepLog, keyEvents, renders, lost, acc, lastTime, activeChar, localHello, remoteHello, settings>>

SimNext ==
    \/ \E a \in Peers : SimStep(a)
    \/ Render(0)

SimSpec == SimInit /\ [][SimNext]_vars

\* --------------------------------------------- a channel that drops messages
\* LossSpec: one match, just after both peers have reset and started it (the
\* joiner has handled "start"; each peer's delay prefill is in flight, and each
\* player holds a key).  Net.send hands a message to the data channel and
\* forgets it; here the channel may drop up to MaxLost of the messages in
\* flight, and delivers the others in order.
LossMaxFrame == 3
LossMaxStall == 121
FairMaxStall == 61
MaxLost == 1
LossKeys == [p \in Peers |-> IF p = 0 THEN {"KeyJ"} ELSE {"KeyK"}]

LossInit ==
    /\ running = [p \in Peers |-> TRUE]
    /\ screen = [p \in Peers |-> "game"]
    /\ frame = [p \in Peers |-> 0]
    /\ inputDelay = [p \in Peers |-> DefaultInputDelayFrames]
    /\ localKeyState = LossKeys
    /\ localInputs = [p \in Peers |-> [f \in 0 .. DefaultInputDelayFrames - 1 |-> 0]]
    /\ remoteInputs = [p \in Peers |-> EmptyMap]
    /\ stalled = [p \in Peers |-> FALSE]
    /\ stallFrames = [p \in Peers |-> 0]
    /\ arena = [p \in Peers |-> resetArena(1, HostChar, JoinerChar)]
    /\ chan = [p \in Peers |-> sendPrefill(<<>>, 0, DefaultInputDelayFrames, 1)]
    /\ matchNo = [p \in Peers |-> 1]
    /\ stepLog = [p \in Peers |-> <<>>]
    /\ keyEvents = 0
    /\ renders = [p \in Peers |-> 0]
    /\ simInputs = <<>>
    /\ lost = 0
    /\ acc = 0
    /\ lastTime = 0
    /\ activeChar = [p \in Peers |-> IF p = 0 THEN HostChar ELSE JoinerChar]
    /\ localHello = [p \in Peers |-> IF p = 0 THEN HostChar ELSE JoinerChar]
    /\ remoteHello = [p \in Peers |-> IF p = 0 THEN JoinerChar ELSE HostChar]
    /\ settings = [p \in Peers |-> DefaultInputDelayFrames]
    /\ stopTimers = [p \in Peers |-> <<>>]

\* The data channel drops the k-th message in flight toward peer p.  The drops
\* come while every peer is still a full request period (60 stalled ticks)
\* below the bound maxStall on its stall counter, so that the bound never cuts
\* off the request that follows a drop.
LoseMessage(p, k, maxStall) ==
    /\ lost < MaxLost
    /\ \A q \in Peers : stallFrames[q] + 60 < maxStall
    /\ k \in 1 .. Len(chan[p])
    /\ chan' = [chan EXCEPT ![p] = RemoveAt(@, k)]
    /\ lost' = lost + 1
    /\ UNCHANGED <<running, screen, frame, inputDelay, localKeyState, localInputs,
                   remoteInputs, stalled, stallFrames, arena, matchNo, stepLog,
                   keyEvents, renders, simInputs, acc, lastTime, activeChar, localHello, remoteHello, settings, stopTimers>>

\* The longest queue of LossSpec is no longer than this.
MaxInFlight == 2 * LossMaxFrame + 6

\* tickOneFrame on peer p.  Delivery is quicker than a tick here: a peer
\* handles the messages that have reached it before its next tick (the
\* interleavings of ticks with messages still in flight are those of Spec).
LossTick(p) == chan[p] = <<>> /\ Tick(p, LossMaxFrame, LossMaxStall)

LossNext ==
    \/ \E p \in Peers : OnMessage(p)
    \/ \E p \in Peers : LossTick(p)
    \/ \E p \in Peers, k \in 1 .. MaxInFlight : LoseMessage(p, k, LossMaxStall)

LossSpec == LossInit /\ [][LossNext]_vars

\* LossFairSpec: the same match on the same channel, with a lower bound on the
\* stall counters, in which both peers keep ticking (gameLoop runs
\* tickOneFrame on every animation frame while running) and the channel keeps
\* delivering what it has not dropped.
FairTick(p) == chan[p] = <<>> /\ Tick(p, LossMaxFrame, FairMaxStall)

FairNext ==
    \/ \E p \in Peers : OnMessage(p)
    \/ \E p \in Peers : FairTick(p)
    \/ \E p \in Peers, k \in 1 .. MaxInFlight : LoseMessage(p, k, FairMaxStall)

LossFairSpec ==
    /\ LossInit
    /\ [][FairNext]_vars
    /\ \A p \in Peers : WF_vars(FairTick(p)) /\ WF_vars(OnMessage(p))

\* ------------------------------------------------------ one hit, any stats
\* HitSpec: one Game instance at the moment of a step at which a hit lands
\* (after the fighter updates of that step): fighter 0 attacks with a punch or
\* a kick in its active frames, or its projectile is about to reach fighter 1.
\* The attacker's attack and range stats and the defender's defense stat are
\* any values a validated character can have; the defender is idle, blocking
\* or already hurt, at full or low health.
StatValues == StatMin .. StatMax
HitKinds == {"punch", "kick", "projectile"}
HitDefenderStates == {"idle", "block", "hurt"}
HitFrame == 1800

\* A character with every stat at the minimum except attack, defense, range.
hitChar(attack, defense, range) ==
    [stats |-> [health |-> StatMin, attack |-> attack, defense |-> defense,
                speed |-> StatMin, jump |-> StatMin, special |-> StatMin,
                range |-> range],
     moves |-> [projectileSpeed |-> 12, projectileSize |-> 14]]

hitArena(attack, range, defense, kind, defState, lowHp) ==
    LET A == resetArena(1, hitChar(attack, StatMin, range), hitChar(StatMin, defense, StatMin))
        B == [A EXCEPT !.fighters[0].x = 500 * FP,
                       !.fighters[1].x = 500 * FP + 3000,
                       !.fighters[0].meter = 35,
                       !.fighters[0].state = IF kind = "projectile" THEN "special" ELSE kind,
                       !.fighters[0].stateFrame = IF kind = "punch" THEN 5
                                                  ELSE IF kind = "kick" THEN 7 ELSE 12,
                       !.fighters[1].state = defState,
                       !.fighters[1].stun = IF defState = "hurt" THEN 13 ELSE 0,
                       !.fighters[1].hp = IF lowHp THEN SimLowHp ELSE @]
        shot == spawnProjectile(B, 0).G
    IN IF kind = "projectile"
       THEN [shot EXCEPT !.projectiles[1].x = B.fighters[1].x - shot.projectiles[1].vx]
       ELSE B

HitInit ==
    /\ \E attack \in StatValues, range \in StatValues, defense \in StatValues,
          kind \in HitKinds, defState \in HitDefenderStates, lowHp \in BOOLEAN :
         arena = [p \in Peers |->
                    IF p = 0 THEN hitArena(attack, range, defense, kind, defState, lowHp)
                    ELSE NoArena]
    /\ running = [p \in Peers |-> p = 0]
    /\ screen = [p \in Peers |-> IF p = 0 THEN "game" ELSE "lobby"]
    /\ frame = [p \in Peers |-> IF p = 0 THEN HitFrame ELSE 0]
    /\ inputDelay = [p \in Peers |-> DefaultInputDelayFrames]
    /\ localKeyState = [p \in Peers |-> {}]
    /\ localInputs = [p \in Peers |-> EmptyMap]
    /\ remoteInputs = [p \in Peers |-> EmptyMap]
    /\ stalled = [p \in Peers |-> FALSE]
    /\ stallFrames = [p \in Peers |-> 0]
    /\ chan = [p \in Peers |-> <<>>]
    /\ matchNo = [p \in Peers |-> IF p = 0 THEN 1 ELSE 0]
    /\ stepLog = [p \in Peers |-> <<>>]
    /\ keyEvents = 0
    /\ renders = [p \in Peers |-> 0]
    /\ simInputs = <<>>
    /\ lost = 0
    /\ acc = 0
    /\ lastTime = 0
    /\ activeChar = [p \in Peers |-> IF p = 0 THEN HostChar ELSE JoinerChar]
    /\ localHello = [p \in Peers |-> IF p = 0 THEN HostChar ELSE JoinerChar]
    /\ remoteHello = [p \in Peers |-> IF p = 0 THEN JoinerChar ELSE HostChar]
    /\ settings = [p \in Peers |-> DefaultInputDelayFrames]
    /\ stopTimers = [p \in Peers |-> <<>>]

\* The melee and projectile loops of the step at frame HitFrame.
HitStep ==
    /\ frame[0] = HitFrame
    /\ arena' = [arena EXCEPT ![0] = resolveHits(@, frame[0])]
    /\ frame' = [frame EXCEPT ![0] = @ + 1]
    /\ UNCHANGED <<running, screen, inputDelay, localKeyState, localInputs, remoteInputs,
                   stalled, stallFrames, chan, matchNo, stepLog, keyEvents, renders,
                   simInputs, lost, acc, lastTime, activeChar, localHello, remoteHello, settings, stopTimers>>

HitNext == HitStep

HitSpec == HitInit /\ [][HitNext]_vars

\* ------------------------------------------------- projectiles in flight
\* ProjSpec: one Game instance in mid-match with one or two projectiles in
\* flight and no key held.  Each projectile is in the middle of the arena,
\* one step short of the opposing fighter, or at the edge of the band of
\* 80 px around the arena, with 1, 2 or many frames of life left; fighter 1
\* stands or has been knocked-out.
ProjStartFrame == 1800
ProjMaxSteps == 3
ProjLives == {1, 2, 50}
ProjPlaces == {"mid", "target", "edge"}

\* Fighter owner's projectile as spawnProjectile makes it, put at a place.
shotAt(G, owner, place, life) ==
    LET shot == spawnProjectile([G EXCEPT !.fighters[owner].meter = 35], owner).G.projectiles[1]
        target == G.fighters[1 - owner]
    IN [shot EXCEPT
          !.life = life,
          !.x = CASE place = "mid" -> 560 * FP
                  [] place = "target" -> target.x - shot.vx
                  [] place = "edge" -> IF owner = 0 THEN FIX_W + 80 * FP
                                       ELSE -80 * FP + 1000]

ProjShots(G) ==
    {shotAt(G, owner, place, life) : owner \in {0, 1}, place \in ProjPlaces, life \in ProjLives}

projArena(koTarget) ==
    LET A == resetArena(1, HostChar, JoinerChar)
    IN IF koTarget
       THEN [A EXCEPT !.fighters[1].hp = 0, !.fighters[1].state = "ko",
                      !.fighters[1].stateFrame = 30, !.winner = 0]
       ELSE A

ProjInit ==
    /\ \E koTarget \in BOOLEAN :
         LET A == projArena(koTarget)
         IN \E first \in ProjShots(A), more \in {<<>>} \cup {<<sh>> : sh \in ProjShots(A)} :
               arena = [p \in Peers |->
                          IF p = 0 THEN [A EXCEPT !.projectiles = <<first>> \o more]
                          ELSE NoArena]
    /\ running = [p \in Peers |-> p = 0]
    /\ screen = [p \in Peers |-> IF p = 0 THEN "game" ELSE "lobby"]
    /\ frame = [p \in Peers |-> IF p = 0 THEN ProjStartFrame ELSE 0]
    /\ inputDelay = [p \in Peers |-> DefaultInputDelayFrames]
    /\ localKeyState = [p \in Peers |-> {}]
    /\ localInputs = [p \in Peers |-> EmptyMap]
    /\ remoteInputs = [p \in Peers |-> EmptyMap]
    /\ stalled = [p \in Peers |-> FALSE]
    /\ stallFrames = [p \in Peers |-> 0]
    /\ chan = [p \in Peers |-> <<>>]
    /\ matchNo = [p \in Peers |-> IF p = 0 THEN 1 ELSE 0]
    /\ stepLog = [p \in Peers |-> <<>>]
    /\ keyEvents = 0
    /\ renders = [p \in Peers |-> 0]
    /\ simInputs = <<>>
    /\ lost = 0
    /\ acc = 0
    /\ lastTime = 0
    /\ activeChar = [p \in Peers |-> IF p = 0 THEN HostChar ELSE JoinerChar]
    /\ localHello = [p \in Peers |-> IF p = 0 THEN HostChar ELSE JoinerChar]
    /\ remoteHello = [p \in Peers |-> IF p = 0 THEN JoinerChar ELSE HostChar]
    /\ settings = [p \in Peers |-> DefaultInputDelayFrames]
    /\ stopTimers = [p \in Peers |-> <<>>]

\* One frame: stepLogic with no key held; frame++.
ProjStep ==
    /\ frame[0] - ProjStartFrame < ProjMaxSteps
    /\ arena' = [arena EXCEPT ![0] = stepLogic(@, <<0, 0>>, frame[0])]
    /\ frame' = [frame EXCEPT ![0] = @ + 1]
    /\ stopTimers' = [stopTimers EXCEPT ![0] =
                         scheduleStop(@, arena[0], arena'[0], matchNo[0])]
    /\ UNCHANGED <<running, screen, inputDelay, localKeyState, localInputs, remoteInputs,
                   stalled, stallFrames, chan, matchNo, stepLog, keyEvents, renders,
                   simInputs, lost, acc, lastTime, activeChar, localHello, remoteHello, settings>>

ProjNext == ProjStep

ProjSpec == ProjInit /\ [][ProjNext]_vars

\* ------------------------------------------------- what the wire can carry
\* WireSpec: the match of LossInit on a channel that loses nothing, on which
\* a peer also receives payloads that are not messages of this program.  A
\* payload is a text that JSON.parse rejects ("garbage"), a JSON value that is
\* no object ("scalar"), or an object with a kind t and fields f and m, each
\* of which is missing, a text that is no number, or an integer.
Missing == [k |-> "missing", v |-> 0]
Text == [k |-> "text", v |-> 0]
Num(n) == [k |-> "num", v |-> n]
RawFields == {Missing, Text, Num(2)}
RawMessages ==
    {[json |-> j, t |-> "", f |-> Missing, m |-> Missing] : j \in {"garbage", "scalar"}}
    \cup {[json |-> "object", t |-> t, f |-> f, m |-> m] :
            t \in {"ping", "in", "req"}, f \in RawFields, m \in RawFields}

\* value | 0: undefined and a text that is no number give 0.
ToInt32(x) == IF x.k = "num" THEN x.v ELSE 0

Malformed(raw) ==
    \/ raw.json # "object"
    \/ raw.t \notin {"hello", "start", "req", "in"}
    \/ raw.t = "in" /\ (raw.f.k # "num" \/ raw.m.k # "num")
    \/ raw.t = "req" /\ raw.f.k # "num"

\* The longest queue of WireSpec is no longer than this.
WireMaxInFlight == 3
WireMaxFrame == 2

\* dc.onmessage on peer p for a payload raw: JSON.parse, then wireNet.onMessage.
OnRawMessage(p, raw) ==
    /\ running[p]
    /\ Malformed(raw)
    /\ IF raw.json = "garbage" \/ raw.json = "scalar"
       THEN UNCHANGED vars
       ELSE CASE raw.t = "req" ->
                   /\ Len(chan[1 - p]) < WireMaxInFlight
                   /\ chan' = [chan EXCEPT ![1 - p] =
                                 resendLocalInputs(@, localInputs[p], ToInt32(raw.f),
                                                   ToInt32(raw.f) + 180, matchNo[p])]
                   /\ UNCHANGED <<running, screen, frame, inputDelay, localKeyState,
                                  localInputs, remoteInputs, stalled, stallFrames, arena,
                                  matchNo, stepLog, keyEvents, renders, simInputs, lost, acc, lastTime, activeChar, localHello, remoteHello, settings, stopTimers>>
              [] raw.t = "in" ->
                   /\ remoteInputs' = [remoteInputs EXCEPT ![p] =
                                         pushRemoteInput(@, ToInt32(raw.f), ToInt32(raw.m))]
                   /\ UNCHANGED <<running, screen, frame, inputDelay, localKeyState,
                                  localInputs, stalled, stallFrames, arena, chan,
                                  matchNo, stepLog, keyEvents, renders, simInputs, lost, acc, lastTime, activeChar, localHello, remoteHello, settings, stopTimers>>
              [] OTHER -> UNCHANGED vars

WireTick(p) == Tick(p, WireMaxFrame, MaxStall)

WireNext ==
    \/ \E p \in Peers : OnMessage(p)
    \/ \E p \in Peers : WireTick(p)
    \/ \E p \in Peers, raw \in RawMessages : OnRawMessage(p, raw)

WireSpec == LossInit /\ [][WireNext]_vars

\* ---------------------------------------------------------- the game loop
\* LoopSpec: one Game instance whose inputs are always at hand (no key held),
\* driven by gameLoop calls at times t.  Times are in thirds of a millisecond,
\* in which FRAME_MS = 1000 / FPS ms is the whole number 50.
FPS == 60
FRAME_MS == (3 * 1000) \div FPS
AccCap == 3 * 200
LoopStartFrame == 1800
LoopMaxTime == 3600
LoopMaxFrame == 24
\* The real time between two calls: none, less than a frame, a frame, a few
\* frames, the cap, a second.
LoopDts == {0, 10, 50, 110, 600, 3000}

\* A variant of the cap that lets the accumulator grow.
capAccNone(a) == a

\* Cap catch-up: acc = Math.min(acc, 200).
capAcc(a) == Min(a, AccCap)

\* while (acc >= FRAME_MS) { tickOneFrame(); acc -= FRAME_MS; } on the loop
\* state st = [G, frame, acc, stops, m]; the tick is stepLogic with no key
\* held; frame++.
RECURSIVE loopTicks(_)
loopTicks(st) ==
    IF st.acc >= FRAME_MS
    THEN LET Gn == stepLogic(st.G, <<0, 0>>, st.frame)
         IN loopTicks([G |-> Gn,
                       frame |-> st.frame + 1,
                       acc |-> st.acc - FRAME_MS,
                       stops |-> scheduleStop(st.stops, st.G, Gn, st.m),
                       m |-> st.m])
    ELSE st

LoopInit ==
    /\ arena = [p \in Peers |-> IF p = 0 THEN resetArena(1, HostChar, JoinerChar) ELSE NoArena]
    /\ running = [p \in Peers |-> p = 0]
    /\ screen = [p \in Peers |-> IF p = 0 THEN "game" ELSE "lobby"]
    /\ frame = [p \in Peers |-> IF p = 0 THEN LoopStartFrame ELSE 0]
    /\ inputDelay = [p \in Peers |-> DefaultInputDelayFrames]
    /\ localKeyState = [p \in Peers |-> {}]
    /\ localInputs = [p \in Peers |-> EmptyMap]
    /\ remoteInputs = [p \in Peers |-> EmptyMap]
    /\ stalled = [p \in Peers |-> FALSE]
    /\ stallFrames = [p \in Peers |-> 0]
    /\ chan = [p \in Peers |-> <<>>]
    /\ matchNo = [p \in Peers |-> IF p = 0 THEN 1 ELSE 0]
    /\ stepLog = [p \in Peers |-> <<>>]
    /\ keyEvents = 0
    /\ renders = [p \in Peers |-> 0]
    /\ simInputs = <<>>
    /\ lost = 0
    /\ acc = 0
    /\ lastTime = 0
    /\ activeChar = [p \in Peers |-> IF p = 0 THEN HostChar ELSE JoinerChar]
    /\ localHello = [p \in Peers |-> IF p = 0 THEN HostChar ELSE JoinerChar]
    /\ remoteHello = [p \in Peers |-> IF p = 0 THEN JoinerChar ELSE HostChar]
    /\ settings = [p \in Peers |-> DefaultInputDelayFrames]
    /\ stopTimers = [p \in Peers |-> <<>>]

\* gameLoop(t) of instance 0.
GameLoop(t) ==
    /\ running[0]
    /\ t <= LoopMaxTime
    /\ frame[0] - LoopStartFrame < LoopMaxFrame
    /\ LET dt == t - lastTime
           st == loopTicks([G |-> arena[0], frame |-> frame[0], acc |-> capAcc(acc + dt),
                            stops |-> stopTimers[0], m |-> matchNo[0]])
       IN /\ lastTime' = t
          /\ acc' = st.acc
          /\ frame' = [frame EXCEPT ![0] = st.frame]
          /\ arena' = [arena EXCEPT ![0] = renderShake(st.G)]
          /\ stopTimers' = [stopTimers EXCEPT ![0] = st.stops]
    /\ UNCHANGED <<running, screen, inputDelay, localKeyState, localInputs, remoteInputs,
                   stalled, stallFrames, chan, matchNo, stepLog, keyEvents, renders,
                   simInputs, lost, activeChar, localHello, remoteHello, settings>>

LoopNext == \E dt \in LoopDts : GameLoop(lastTime + dt)

LoopSpec == LoopInit /\ [][LoopNext]_vars

\* ------------------------------------------------------------- the lobby
\* LobbySpec: two peers in the lobby with an open channel, each with a stored
\* active character: a default character, or what "Validate & Save" stored
\* for a pasted character (the normalized character).  Each sends its hello;
\* the host starts the match.
NoChar ==
    [stats |-> [k \in StatNames |-> 0],
     moves |-> [projectileSpeed |-> 0, projectileSize |-> 0]]

\* The pasted characters: health and attack and the projectile speed vary
\* (below, inside and above their ranges, whole and fractional), the rest is 4
\* and the projectile size 14.
RawStatValues == {10, 44, 45, 95, 120}
RawSpeedValues == {0, 125, 200}
RawChars ==
    {[stats |-> [k \in StatNames |->
                   IF k = "health" THEN h ELSE IF k = "attack" THEN a ELSE 40],
      moves |-> [projectileSpeed |-> ps, projectileSize |-> 140]] :
       h \in RawStatValues, a \in RawStatValues, ps \in RawSpeedValues}

\* What the character store can hold.
StoredChars ==
    {CharPatch, CharNull}
    \cup {validateAndNormalizeCharacter(raw).character :
            raw \in {r \in RawChars : validateAndNormalizeCharacter(r).ok}}

LobbySeeds == {1, 2147483647}

LobbyMsg(t, seedIn, char, p1Char, p2Char) ==
    [t |-> t, seed |-> seedIn, char |-> char, p1Char |-> p1Char, p2Char |-> p2Char]

LobbyInit ==
    /\ running = [p \in Peers |-> FALSE]
    /\ screen = [p \in Peers |-> "lobby"]
    /\ frame = [p \in Peers |-> 0]
    /\ inputDelay = [p \in Peers |-> DefaultInputDelayFrames]
    /\ localKeyState = [p \in Peers |-> {}]
    /\ localInputs = [p \in Peers |-> EmptyMap]
    /\ remoteInputs = [p \in Peers |-> EmptyMap]
    /\ stalled = [p \in Peers |-> FALSE]
    /\ stallFrames = [p \in Peers |-> 0]
    /\ arena = [p \in Peers |-> NoArena]
    /\ chan = [p \in Peers |-> <<>>]
    /\ matchNo = [p \in Peers |-> 0]
    /\ stepLog = [p \in Peers |-> <<>>]
    /\ keyEvents = 0
    /\ renders = [p \in Peers |-> 0]
    /\ simInputs = <<>>
    /\ lost = 0
    /\ acc = 0
    /\ lastTime = 0
    /\ activeChar \in [Peers -> StoredChars]
    /\ localHello = [p \in Peers |-> NoChar]
    /\ remoteHello = [p \in Peers |-> NoChar]
    /\ settings = [p \in Peers |-> DefaultInputDelayFrames]
    /\ stopTimers = [p \in Peers |-> <<>>]

\* resetMatch with the characters p1Char and p2Char on peer p, followed by
\* Game.start; ch is the channel state the delay prefill is sent on.
ResetAndStartWith(p, seedIn, ch, p1Char, p2Char) ==
    /\ frame' = [frame EXCEPT ![p] = 0]
    /\ inputDelay' = [inputDelay EXCEPT ![p] = settings[p]]
    /\ localInputs' = [localInputs EXCEPT ![p] =
                         [f \in 0 .. settings[p] - 1 |-> 0]]
    /\ remoteInputs' = [remoteInputs EXCEPT ![p] = EmptyMap]
    /\ chan' = [ch EXCEPT ![1 - p] =
                  sendPrefill(@, 0, settings[p], matchNo[p] + 1)]
    /\ stalled' = [stalled EXCEPT ![p] = FALSE]
    /\ stallFrames' = [stallFrames EXCEPT ![p] = 0]
    /\ arena' = [arena EXCEPT ![p] = resetArena(seedIn, p1Char, p2Char)]
    /\ running' = [running EXCEPT ![p] = TRUE]
    /\ screen' = [screen EXCEPT ![p] = "game"]
    /\ matchNo' = [matchNo EXCEPT ![p] = @ + 1]
    /\ stepLog' = [stepLog EXCEPT ![p] = <<>>]

\* onOpen: sendHello on peer p.
SendHello(p) ==
    /\ screen[p] = "lobby"
    /\ localHello[p] = NoChar
    /\ localHello' = [localHello EXCEPT ![p] = activeChar[p]]
    /\ chan' = [chan EXCEPT ![1 - p] =
                  Append(@, LobbyMsg("hello", 0, asJson(activeChar[p]), NoChar, NoChar))]
    /\ UNCHANGED <<running, screen, frame, inputDelay, localKeyState, localInputs,
                   remoteInputs, stalled, stallFrames, arena, matchNo, stepLog,
                   keyEvents, renders, simInputs, lost, acc, lastTime, activeChar,
                   remoteHello, settings, stopTimers>>

\* startMatchAsHost with the characters of the two hellos.
LobbyStartMatchAsHost(seedIn) ==
    /\ screen[0] = "lobby"
    /\ localHello[0] # NoChar /\ remoteHello[0] # NoChar
    /\ ResetAndStartWith(0, seedIn,
         [chan EXCEPT ![1] = Append(@, LobbyMsg("start", seedIn, NoChar,
                                               asJson(localHello[0]),
                                               asJson(remoteHello[0])))],
         localHello[0], remoteHello[0])
    /\ UNCHANGED <<localKeyState, keyEvents, renders, simInputs, lost, acc, lastTime,
                   activeChar, localHello, remoteHello, settings, stopTimers>>

\* wireNet.onMessage on peer p for a "hello" or a "start" at the head of its
\* queue (the other kinds are handled as in OnMessage).
LobbyOnMessage(p) ==
    /\ chan[p] # <<>>
    /\ LET msg == Head(chan[p])
           rest == [chan EXCEPT ![p] = Tail(@)]
       IN CASE msg.t = "hello" ->
                 LET v == validateAndNormalizeCharacter(msg.char)
                 IN /\ remoteHello' = IF v.ok THEN [remoteHello EXCEPT ![p] = v.character]
                                      ELSE remoteHello
                    /\ chan' = rest
                    /\ UNCHANGED <<running, screen, frame, inputDelay, localKeyState,
                                   localInputs, remoteInputs, stalled, stallFrames, arena,
                                   matchNo, stepLog, keyEvents, renders, simInputs, lost,
                                   acc, lastTime, activeChar, localHello, settings, stopTimers>>
            [] msg.t = "start" ->
                 LET v1 == validateAndNormalizeCharacter(msg.p1Char)
                     v2 == validateAndNormalizeCharacter(msg.p2Char)
                 IN IF v1.ok /\ v2.ok
                    THEN /\ ResetAndStartWith(p, msg.seed, rest, v1.character, v2.character)
                         /\ UNCHANGED <<localKeyState, keyEvents, renders, simInputs, lost,
                                        acc, lastTime, activeChar, localHello, remoteHello, settings, stopTimers>>
                    ELSE /\ chan' = rest
                         /\ UNCHANGED <<running, screen, frame, inputDelay, localKeyState,
                                        localInputs, remoteInputs, stalled, stallFrames,
                                        arena, matchNo, stepLog, keyEvents, renders,
                                        simInputs, lost, acc, lastTime, activeChar,
                                        localHello, remoteHello, settings, stopTimers>>
            [] OTHER -> OnMessage(p)

LobbyNext ==
    \/ \E p \in Peers : SendHello(p)
    \/ \E seedIn \in LobbySeeds : LobbyStartMatchAsHost(seedIn)
    \/ \E p \in Peers : LobbyOnMessage(p)

LobbySpec == LobbyInit /\ [][LobbyNext]_vars

\* ------------------------------------------------------ stats of a fighter
\* StatSpec: one Game instance at the start of a match whose fighter 0 plays
\* a character within the budget; the match is started again with one stat of
\* that character one higher.
StatLevels == {3, 4, 6, 8}
StatMaxMatches == 2

statSum(stats) ==
    stats.health + stats.attack + stats.defense + stats.speed + stats.jump
    + stats.special + stats.range

statChar(stats) == [stats |-> stats, moves |-> [projectileSpeed |-> 12, projectileSize |-> 14]]

StatInit ==
    /\ \E stats \in [StatNames -> StatLevels] :
         /\ statSum(stats) < Budget
         /\ activeChar = [p \in Peers |-> IF p = 0 THEN statChar(stats) ELSE JoinerChar]
         /\ localHello = [p \in Peers |-> IF p = 0 THEN statChar(stats) ELSE JoinerChar]
         /\ remoteHello = [p \in Peers |-> IF p = 0 THEN JoinerChar ELSE statChar(stats)]
         /\ settings = [p \in Peers |-> DefaultInputDelayFrames]
         /\ stopTimers = [p \in Peers |-> <<>>]
         /\ arena = [p \in Peers |->
                       IF p = 0 THEN resetArena(1, statChar(stats), JoinerChar) ELSE NoArena]
    /\ running = [p \in Peers |-> p = 0]
    /\ screen = [p \in Peers |-> IF p = 0 THEN "game" ELSE "lobby"]
    /\ frame = [p \in Peers |-> 0]
    /\ inputDelay = [p \in Peers |-> DefaultInputDelayFrames]
    /\ localKeyState = [p \in Peers |-> {}]
    /\ localInputs = [p \in Peers |-> EmptyMap]
    /\ remoteInputs = [p \in Peers |-> EmptyMap]
    /\ stalled = [p \in Peers |-> FALSE]
    /\ stallFrames = [p \in Peers |-> 0]
    /\ chan = [p \in Peers |-> <<>>]
    /\ matchNo = [p \in Peers |-> IF p = 0 THEN 1 ELSE 0]
    /\ stepLog = [p \in Peers |-> <<>>]
    /\ keyEvents = 0
    /\ renders = [p \in Peers |-> 0]
    /\ simInputs = <<>>
    /\ lost = 0
    /\ acc = 0
    /\ lastTime = 0

\* resetMatch with fighter 0's character changed in stat k, which is one higher.
RaiseStat(k) ==
    /\ matchNo[0] < StatMaxMatches
    /\ activeChar[0].stats[k] < StatMax
    /\ LET char == [activeChar[0] EXCEPT !.stats[k] = @ + 1]
       IN /\ activeChar' = [activeChar EXCEPT ![0] = char]
          /\ localHello' = [localHello EXCEPT ![0] = char]
          /\ remoteHello' = [remoteHello EXCEPT ![1] = char]
          /\ arena' = [arena EXCEPT ![0] = resetArena(1, char, JoinerChar)]
    /\ matchNo' = [matchNo EXCEPT ![0] = @ + 1]
    /\ UNCHANGED <<running, screen, frame, inputDelay, localKeyState, localInputs,
                   remoteInputs, stalled, stallFrames, chan, stepLog, keyEvents, renders,
                   simInputs, lost, acc, lastTime, settings, stopTimers>>

StatNext == \E k \in StatNames : RaiseStat(k)

StatSpec == StatInit /\ [][StatNext]_vars

\* -------------------------------------------------------- changing keys
\* ActSpec: one Game instance in mid-match, the fighters 30 px apart, stepped
\* with a mask for fighter 0 that changes from frame to frame (keys pressed
\* and released between ticks) while fighter 1 holds punch.
ActStartFrame == 1800
ActMaxSteps == 6
ActMasks0 == {0, IN_B, IN_P, IN_K, IN_S, IN_P + IN_K + IN_S}
ActMasks1 == {IN_P}

ActInit ==
    /\ arena = [p \in Peers |->
                  IF p = 0 THEN simArena(1, 3000, SimHighHp, SimHighHp, 35, 35) ELSE NoArena]
    /\ running = [p \in Peers |-> p = 0]
    /\ screen = [p \in Peers |-> IF p = 0 THEN "game" ELSE "lobby"]
    /\ frame = [p \in Peers |-> IF p = 0 THEN ActStartFrame ELSE 0]
    /\ inputDelay = [p \in Peers |-> DefaultInputDelayFrames]
    /\ localKeyState = [p \in Peers |-> {}]
    /\ localInputs = [p \in Peers |-> EmptyMap]
    /\ remoteInputs = [p \in Peers |-> EmptyMap]
    /\ stalled = [p \in Peers |-> FALSE]
    /\ stallFrames = [p \in Peers |-> 0]
    /\ chan = [p \in Peers |-> <<>>]
    /\ matchNo = [p \in Peers |-> IF p = 0 THEN 1 ELSE 0]
    /\ stepLog = [p \in Peers |-> <<>>]
    /\ keyEvents = 0
    /\ renders = [p \in Peers |-> 0]
    /\ simInputs = <<>>
    /\ lost = 0
    /\ acc = 0
    /\ lastTime = 0
    /\ activeChar = [p \in Peers |-> IF p = 0 THEN HostChar ELSE JoinerChar]
    /\ localHello = [p \in Peers |-> IF p = 0 THEN HostChar ELSE JoinerChar]
    /\ remoteHello = [p \in Peers |-> IF p = 0 THEN JoinerChar ELSE HostChar]
    /\ settings = [p \in Peers |-> DefaultInputDelayFrames]
    /\ stopTimers = [p \in Peers |-> <<>>]

\* One frame with the masks m0 and m1: stepLogic; frame++.  The masks are
\* kept in simInputs.
ActStep(m0, m1) ==
    /\ frame[0] - ActStartFrame < ActMaxSteps
    /\ arena' = [arena EXCEPT ![0] = stepLogic(@, <<m0, m1>>, frame[0])]
    /\ frame' = [frame EXCEPT ![0] = @ + 1]
    /\ stopTimers' = [stopTimers EXCEPT ![0] =
                         scheduleStop(@, arena[0], arena'[0], matchNo[0])]
    /\ simInputs' = <<<<m0, m1>>>>
    /\ UNCHANGED <<running, screen, inputDelay, localKeyState, localInputs, remoteInputs,
                   stalled, stallFrames, chan, matchNo, stepLog, keyEvents, renders,
                   lost, acc, lastTime, activeChar, localHello, remoteHello, settings>>

ActNext == \E m0 \in ActMasks0, m1 \in ActMasks1 : ActStep(m0, m1)

ActSpec == ActInit /\ [][ActNext]_vars

\* ----------------------------------------------------------------- jumps
\* JumpSpec: the Game instance of ActInit with the fighters 70 px apart;
\* fighter 0's jump key is pressed and released from frame to frame, for long
\* enough to jump, land and jump again; fighter 1 stands.
JumpStartFrame == 1800
JumpMaxSteps == 45
JumpMasks == {0, IN_J}

JumpInit ==
    /\ arena = [p \in Peers |->
                  IF p = 0 THEN simArena(1, 7000, SimHighHp, SimHighHp, 35, 35) ELSE NoArena]
    /\ running = [p \in Peers |-> p = 0]
    /\ screen = [p \in Peers |-> IF p = 0 THEN "game" ELSE "lobby"]
    /\ frame = [p \in Peers |-> IF p = 0 THEN JumpStartFrame ELSE 0]
    /\ inputDelay = [p \in Peers |-> DefaultInputDelayFrames]
    /\ localKeyState = [p \in Peers |-> {}]
    /\ localInputs = [p \in Peers |-> EmptyMap]
    /\ remoteInputs = [p \in Peers |-> EmptyMap]
    /\ stalled = [p \in Peers |-> FALSE]
    /\ stallFrames = [p \in Peers |-> 0]
    /\ chan = [p \in Peers |-> <<>>]
    /\ matchNo = [p \in Peers |-> IF p = 0 THEN 1 ELSE 0]
    /\ stepLog = [p \in Peers |-> <<>>]
    /\ keyEvents = 0
    /\ renders = [p \in Peers |-> 0]
    /\ simInputs = <<>>
    /\ lost = 0
    /\ acc = 0
    /\ lastTime = 0
    /\ activeChar = [p \in Peers |-> IF p = 0 THEN HostChar ELSE JoinerChar]
    /\ localHello = [p \in Peers |-> IF p = 0 THEN HostChar ELSE JoinerChar]
    /\ remoteHello = [p \in Peers |-> IF p = 0 THEN JoinerChar ELSE HostChar]
    /\ settings = [p \in Peers |-> DefaultInputDelayFrames]
    /\ stopTimers = [p \in Peers |-> <<>>]

\* One frame with the mask m0 for fighter 0: stepLogic; frame++.
JumpStep(m0) ==
    /\ frame[0] - JumpStartFrame < JumpMaxSteps
    /\ arena' = [arena EXCEPT ![0] = stepLogic(@, <<m0, 0>>, frame[0])]
    /\ frame' = [frame EXCEPT ![0] = @ + 1]
    /\ stopTimers' = [stopTimers EXCEPT ![0] =
                         scheduleStop(@, arena[0], arena'[0], matchNo[0])]
    /\ simInputs' = <<<<m0, 0>>>>
    /\ UNCHANGED <<running, screen, inputDelay, localKeyState, localInputs, remoteInputs,
                   stalled, stallFrames, chan, matchNo, stepLog, keyEvents, renders,
                   lost, acc, lastTime, activeChar, localHello, remoteHello, settings>>

JumpNext == \E m0 \in JumpMasks : JumpStep(m0)

JumpSpec == JumpInit /\ [][JumpNext]_vars

\* ------------------------------------------------------ specials at range
\* DuelSpec: one Game instance in mid-match with the fighters 120 to 200 px
\* apart, far enough for a projectile to be in flight for several frames;
\* each fighter holds its special key or nothing, and has much or little
\* health left.
DuelStartFrame == 1800
DuelMaxSteps == 30
DuelDistances == {12000, 16000, 20000}
DuelKeys == {{}, {"KeyL"}}

DuelInit ==
    /\ \E dist \in DuelDistances, low0 \in BOOLEAN, low1 \in BOOLEAN :
         LET hp0 == IF low0 THEN SimLowHp ELSE SimHighHp
             hp1 == IF low1 THEN SimLowHp ELSE SimHighHp
         IN arena = [p \in Peers |->
                       IF p = 0 THEN simArena(1, dist, hp0, hp1, 35, 35) ELSE NoArena]
    /\ localKeyState \in [Peers -> DuelKeys]
    /\ running = [p \in Peers |-> p = 0]
    /\ screen = [p \in Peers |-> IF p = 0 THEN "game" ELSE "lobby"]
    /\ frame = [p \in Peers |-> IF p = 0 THEN DuelStartFrame ELSE 0]
    /\ inputDelay = [p \in Peers |-> DefaultInputDelayFrames]
    /\ localInputs = [p \in Peers |-> EmptyMap]
    /\ remoteInputs = [p \in Peers |-> EmptyMap]
    /\ stalled = [p \in Peers |-> FALSE]
    /\ stallFrames = [p \in Peers |-> 0]
    /\ chan = [p \in Peers |-> <<>>]
    /\ matchNo = [p \in Peers |-> IF p = 0 THEN 1 ELSE 0]
    /\ stepLog = [p \in Peers |-> <<>>]
    /\ keyEvents = 0
    /\ renders = [p \in Peers |-> 0]
    /\ simInputs = <<>>
    /\ lost = 0
    /\ acc = 0
    /\ lastTime = 0
    /\ activeChar = [p \in Peers |-> IF p = 0 THEN HostChar ELSE JoinerChar]
    /\ localHello = [p \in Peers |-> IF p = 0 THEN HostChar ELSE JoinerChar]
    /\ remoteHello = [p \in Peers |-> IF p = 0 THEN JoinerChar ELSE HostChar]
    /\ settings = [p \in Peers |-> DefaultInputDelayFrames]
    /\ stopTimers = [p \in Peers |-> <<>>]

\* One frame: stepLogic with the masks of the held keys (fighter i's mask is
\* the key state localKeyState[i]); frame++.
DuelStep ==
    /\ frame[0] - DuelStartFrame < DuelMaxSteps
    /\ arena' = [arena EXCEPT ![0] =
                   stepLogic(@, <<buildLocalInputMask(localKeyState[0]),
                                  buildLocalInputMask(localKeyState[1])>>, frame[0])]
    /\ frame' = [frame EXCEPT ![0] = @ + 1]
    /\ stopTimers' = [stopTimers EXCEPT ![0] =
                         scheduleStop(@, arena[0], arena'[0], matchNo[0])]
    /\ UNCHANGED <<running, screen, inputDelay, localKeyState, localInputs, remoteInputs,
                   stalled, stallFrames, chan, matchNo, stepLog, keyEvents, renders,
                   simInputs, lost, acc, lastTime, activeChar, localHello, remoteHello, settings>>

DuelNext == DuelStep

DuelSpec == DuelInit /\ [][DuelNext]_vars

\* ------------------------------------------------- the input delay setting
\* DelaySpec: the lockstep specification with the input delay slider: each
\* peer may move its slider at any time; resetMatch reads the setting.  No
\* key is pressed (every mask is 0) and nothing is drawn.
DelayRange == {0, 2}
DelayMaxFrame == 3

\* The slider's "input" event: settings.inputDelayFrames = Number(value) | 0.
SetDelay(p, d) ==
    /\ d # settings[p]
    /\ settings' = [settings EXCEPT ![p] = d]
    /\ UNCHANGED <<running, screen, frame, inputDelay, localKeyState, localInputs,
                   remoteInputs, stalled, stallFrames, arena, chan, matchNo, stepLog,
                   keyEvents, renders, simInputs, lost, acc, lastTime, activeChar,
                   localHello, remoteHello, stopTimers>>

DelayTick(p) == Tick(p, DelayMaxFrame, MaxStall)

DelayNext ==
    \/ \E seedIn \in Seeds : StartMatchAsHost(seedIn)
    \/ \E p \in Peers : OnMessage(p)
    \/ \E p \in Peers : DelayTick(p)
    \/ \E p \in Peers : LeaveMatch(p)
    \/ \E p \in Peers, d \in DelayRange : SetDelay(p, d)

DelaySpec == Init /\ [][DelayNext]_vars

\* ------------------------------------------------- the delayed stop timer
\* TimerSpec: the host's Game instance from the middle of match 1, the
\* fighters 30 px apart, one of them holding punch and the other one low on
\* health or not.  The loop steps while running; a timer set by the KO check
\* fires 900 ms later, at any point of the schedule from then on; the user
\* leaves the match, leaves the result screen and starts the next match.
TimerStartFrame == 1800
TimerMaxSteps == 12
TimerKeys == {{}, {"KeyJ"}}

TimerInit ==
    /\ \E low0 \in BOOLEAN, low1 \in BOOLEAN :
         LET hp0 == IF low0 THEN SimLowHp ELSE SimHighHp
             hp1 == IF low1 THEN SimLowHp ELSE SimHighHp
         IN arena = [p \in Peers |->
                       IF p = 0 THEN simArena(1, 3000, hp0, hp1, 35, 35) ELSE NoArena]
    /\ localKeyState \in [Peers -> TimerKeys]
    /\ running = [p \in Peers |-> p = 0]
    /\ screen = [p \in Peers |-> IF p = 0 THEN "game" ELSE "lobby"]
    /\ frame = [p \in Peers |-> IF p = 0 THEN TimerStartFrame ELSE 0]
    /\ inputDelay = [p \in Peers |-> DefaultInputDelayFrames]
    /\ localInputs = [p \in Peers |-> EmptyMap]
    /\ remoteInputs = [p \in Peers |-> EmptyMap]
    /\ stalled = [p \in Peers |-> FALSE]
    /\ stallFrames = [p \in Peers |-> 0]
    /\ chan = [p \in Peers |-> <<>>]
    /\ matchNo = [p \in Peers |-> IF p = 0 THEN 1 ELSE 0]
    /\ stepLog = [p \in Peers |-> <<>>]
    /\ keyEvents = 0
    /\ renders = [p \in Peers |-> 0]
    /\ simInputs = <<>>
    /\ lost = 0
    /\ acc = 0
    /\ lastTime = 0
    /\ activeChar = [p \in Peers |-> IF p = 0 THEN HostChar ELSE JoinerChar]
    /\ localHello = [p \in Peers |-> IF p = 0 THEN HostChar ELSE JoinerChar]
    /\ remoteHello = [p \in Peers |-> IF p = 0 THEN JoinerChar ELSE HostChar]
    /\ settings = [p \in Peers |-> DefaultInputDelayFrames]
    /\ stopTimers = [p \in Peers |-> <<>>]

\* One frame of the running loop: stepLogic with the masks of the held keys
\* (fighter i's mask is the key state localKeyState[i]); frame++.
TimerStep ==
    /\ running[0]
    /\ frame[0] - (IF matchNo[0] = 1 THEN TimerStartFrame ELSE 0) < TimerMaxSteps
    /\ arena' = [arena EXCEPT ![0] =
                   stepLogic(@, <<buildLocalInputMask(localKeyState[0]),
                                  buildLocalInputMask(localKeyState[1])>>, frame[0])]
    /\ frame' = [frame EXCEPT ![0] = @ + 1]
    /\ stopTimers' = [stopTimers EXCEPT ![0] =
                        scheduleStop(@, arena[0], arena'[0], matchNo[0])]
    /\ UNCHANGED <<running, screen, inputDelay, localKeyState, localInputs, remoteInputs,
                   stalled, stallFrames, chan, matchNo, stepLog, keyEvents, renders,
                   simInputs, lost, acc, lastTime, activeChar, localHello, remoteHello,
                   settings>>

\* The oldest pending timer of peer p fires: stop(); UI.showResult(...).
TimerFires(p) ==
    /\ stopTimers[p] # <<>>
    /\ stopTimers' = [stopTimers EXCEPT ![p] = Tail(@)]
    /\ running' = [running EXCEPT ![p] = FALSE]
    /\ screen' = [screen EXCEPT ![p] = "result"]
    /\ UNCHANGED <<frame, inputDelay, localKeyState, localInputs, remoteInputs,
                   stalled, stallFrames, arena, chan, matchNo, stepLog, keyEvents,
                   renders, simInputs, lost, acc, lastTime, activeChar, localHello,
                   remoteHello, settings>>

\* btnRematch / btnBackToLobby on the result screen: UI.show("#screen-lobby").
BackToLobby(p) ==
    /\ screen[p] = "result"
    /\ screen' = [screen EXCEPT ![p] = "lobby"]
    /\ UNCHANGED <<running, frame, inputDelay, localKeyState, localInputs, remoteInputs,
                   stalled, stallFrames, arena, chan, matchNo, stepLog, keyEvents,
                   renders, simInputs, lost, acc, lastTime, activeChar, localHello,
                   remoteHello, settings, stopTimers>>

TimerNext ==
    \/ TimerStep
    \/ TimerFires(0)
    \/ BackToLobby(0)
    \/ LeaveMatch(0)
    \/ \E seedIn \in Seeds : StartMatchAsHost(seedIn)

TimerSpec == TimerInit /\ [][TimerNext]_vars

\* ================================================================ properties
\* A tick of peer p is a step of the system in which p's stall counter goes up
\* (the stalling path) or p's step log grows (the advancing path).
Stalls(p) == stallFrames'[p] = stallFrames[p] + 1
Advances(p) == Len(stepLog'[p]) = Len(stepLog[p]) + 1
\* Both input maps hold the current frame at the moment of the lockstep test
\* (after the tick has recorded its own local input).
BothInputsPresent(p) ==
    Has(localInputs'[p], frame[p]) /\ Has(remoteInputs[p], frame[p])

\* C1: tickOneFrame runs the simulation step for frame F and increments the
\* frame counter only if, at that moment, both localInputs and remoteInputs
\* contain an entry for F.
C1_AdvanceOnlyWithBothInputs ==
    [][\A p \in Peers :
         (Advances(p) \/ frame'[p] = frame[p] + 1 \/ arena'[p].fighters # arena[p].fighters)
           /\ matchNo'[p] = matchNo[p]
         => /\ BothInputsPresent(p)
            /\ frame'[p] = frame[p] + 1
            /\ stepLog'[p][Len(stepLog'[p])].f = frame[p]]_vars

\* A peer that has stepped frames 0 and 1 of a match.
C1_Witness ==
    \E p \in Peers : /\ Len(stepLog[p]) = 2
                     /\ frame[p] = 2
                     /\ Has(remoteInputs[p], 1)
                     /\ ~stalled[p]

\* The frames of a step log are 0, 1, 2, ... in order, each once.
InOrderOnce(log) == \A k \in 1 .. Len(log) : log[k].f = k - 1

\* C2: each peer steps each frame exactly once in increasing order, and for
\* every frame both peers have simulated in the same match the mask pair passed
\* to the step on the host equals the pair passed on the joiner.
C2_SameMasksOnBothPeers ==
    /\ \A p \in Peers : InOrderOnce(stepLog[p])
    /\ matchNo[0] = matchNo[1] =>
         \A k \in 1 .. Min(Len(stepLog[0]), Len(stepLog[1])) :
            stepLog[0][k].masks = stepLog[1][k].masks

\* C3: pushRemoteInput for a frame already present leaves the stored mask
\* unchanged even when the mask differs; once set, remoteInputs[f] never
\* changes for the rest of the match.
C3_FirstWriteWins ==
    [][\A p \in Peers :
         matchNo'[p] = matchNo[p] =>
           \A f \in DOMAIN remoteInputs[p] :
              /\ Has(remoteInputs'[p], f)
              /\ remoteInputs'[p][f] = remoteInputs[p][f]]_vars

\* The peer has sent an input for frame f in this match with a mask other than
\* the one this peer holds for f, and the message has been delivered.
C3_Witness ==
    \E p \in Peers, f \in 0 .. MaxFrame + DefaultInputDelayFrames :
       /\ matchNo[p] = matchNo[1 - p]
       /\ chan[p] = <<>>
       /\ Has(remoteInputs[p], f)
       /\ Has(localInputs[1 - p], f)
       /\ localInputs[1 - p][f] # remoteInputs[p][f]

\* The two simulations have stepped the same frames.
SameFrames == frame[0] = frame[1]
Stepped == frame[0] > SimStartFrame

\* C4: two simulations started from the same seed and characters and fed the
\* same mask pairs have identical fighters, projectiles and winner after every
\* step.
C4_Deterministic ==
    SameFrames =>
       /\ arena[0].fighters = arena[1].fighters
       /\ arena[0].projectiles = arena[1].projectiles
       /\ arena[0].winner = arena[1].winner

\* Both simulations have gone through the same hit, and one of them drew a
\* camera shake in between (which moved its generator).
C4_Witness ==
    /\ SameFrames
    /\ Stepped
    /\ renders[0] > 0
    /\ arena[1].shake > 0
    /\ arena[0].seed # arena[1].seed

\* C5: the generator's state is advanced only by the simulation step, so two
\* peers that have simulated the same frames with the same inputs hold the
\* same generator state, however many times each has rendered.
C5_SeedOnlyFromSimulation ==
    SameFrames => arena[0].seed = arena[1].seed

\* The result of the match has been decided: the KO check has run with some
\* fighter's health at 0 (a draw leaves winner at null).
Decided(G) == G.fighters[0].hp <= 0 \/ G.fighters[1].hp <= 0

\* C6: once the result has been decided, every later simulation step leaves
\* the fighters, the projectiles, hitstop and the result unchanged.
C6_NoStepAfterResult ==
    [][\A a \in Peers :
         Decided(arena[a]) /\ frame'[a] = frame[a] + 1
         => /\ arena'[a].fighters = arena[a].fighters
            /\ arena'[a].projectiles = arena[a].projectiles
            /\ arena'[a].hitstop = arena[a].hitstop
            /\ arena'[a].winner = arena[a].winner]_vars

\* C7: a fighter whose health has reached 0 is knocked-out by the end of the
\* step in which it reached 0.
C7_KoInSameStep ==
    \A a \in Peers, i \in {0, 1} :
       arena[a].fighters[i].hp <= 0 => arena[a].fighters[i].state = "ko"

\* C8: once a fighter's state is ko, no later step, melee hit or projectile
\* hit changes it.
C8_KoIsTerminal ==
    [][\A a \in Peers, i \in {0, 1} :
         arena[a].fighters[i].state = "ko" => arena'[a].fighters[i].state = "ko"]_vars

\* A fighter that has been knocked-out for several steps with its punch key
\* held and its cooldown run out, while its opponent attacks.
C8_Witness ==
    \E a \in Peers :
       /\ arena[a].fighters[1].state = "ko"
       /\ arena[a].fighters[1].stateFrame >= 3
       /\ arena[a].fighters[0].state \in {"punch", "kick", "special"}
       /\ localKeyState[1] = {"KeyJ"}
       /\ arena[a].fighters[1].cooldown = 0

\* C9: at the end of a step in which some fighter's health is 0 the result is
\* set: the winner is the fighter whose health is positive, or none (draw)
\* when both are at 0.
C9_WinnerMatchesHealth ==
    \A a \in Peers :
       Decided(arena[a]) =>
          arena[a].winner = IF arena[a].fighters[0].hp > 0 THEN 0
                            ELSE IF arena[a].fighters[1].hp > 0 THEN 1
                            ELSE null

\* A double KO.
C9_Witness ==
    \E a \in Peers :
       /\ arena[a].fighters[0].hp = 0
       /\ arena[a].fighters[1].hp = 0
       /\ arena[a].winner = null

\* C10: a tick that finds either input missing for the current frame is a
\* stall: frame, fighters, projectiles, hitstop and winner stay as they are;
\* only the stall flag and counter change, a local input for frame + delay may
\* be recorded, and messages may be sent.
C10_StallChangesNothing ==
    [][\A p \in Peers :
         (Stalls(p) \/ Advances(p)) /\ ~BothInputsPresent(p)
         => /\ Stalls(p)
            /\ stalled'[p]
            /\ frame'[p] = frame[p]
            /\ arena'[p] = arena[p]
            /\ stepLog'[p] = stepLog[p]
            /\ remoteInputs' = remoteInputs
            /\ \A f \in DOMAIN localInputs'[p] :
                  f \in DOMAIN localInputs[p] \/ f = frame[p] + inputDelay[p]
            /\ \A f \in DOMAIN localInputs[p] :
                  Has(localInputs'[p], f) /\ localInputs'[p][f] = localInputs[p][f]]_vars

\* A peer stalled in the middle of a match, after it has stepped a frame.
C10_Witness ==
    \E p \in Peers : /\ stalled[p]
                     /\ stallFrames[p] = 1
                     /\ frame[p] >= 1
                     /\ ~Has(remoteInputs[p], frame[p])
                     /\ Has(localInputs[p], frame[p] + inputDelay[p])

\* The messages a step hands to the channel toward peer q (a step either
\* appends to a queue or takes one message off it).
Sent(q) ==
    IF Len(chan'[q]) > Len(chan[q])
    THEN SubSeq(chan'[q], Len(chan[q]) + 1, Len(chan'[q]))
    ELSE <<>>
IsReq(m) == m.t = "req"
IsIn(m) == m.t = "in"

\* C11: a peer emits a request naming its current frame exactly on its 60th,
\* 120th, ... consecutive stalled tick and on no other step, and its
\* consecutive-stall counter is 0 after every tick that advances a frame.
C11_RequestEvery60Stalls ==
    [][\A p \in Peers :
         LET reqs == SelectSeq(Sent(1 - p), IsReq)
         IN /\ IF Stalls(p) /\ (stallFrames[p] + 1) \in {60, 120, 180}
               THEN Len(reqs) = 1 /\ reqs[1].f = frame[p] /\ frame'[p] = frame[p]
               ELSE reqs = <<>>
            /\ Stalls(p) => stallFrames[p] + 1 <= 180
            /\ Advances(p) => stallFrames'[p] = 0]_vars

\* A peer has just stalled for the 60th time in a row on its frame, and one
\* request naming that frame is in flight.
C11_Witness ==
    \E p \in Peers :
       /\ stallFrames[p] = 60
       /\ Len(SelectSeq(chan[1 - p], IsReq)) = 1
       /\ \E k \in 1 .. Len(chan[1 - p]) :
             IsReq(chan[1 - p][k]) /\ chan[1 - p][k].f = frame[p]

\* A peer on its 120th stalled tick in a row (its first request is unanswered).
C11_WitnessSecond ==
    \E p \in Peers : stallFrames[p] = 120 /\ Len(SelectSeq(chan[1 - p], IsReq)) = 2

\* Peer p handles the request at the head of its queue.
HandlesReq(p) ==
    /\ chan[p] # <<>>
    /\ IsReq(Head(chan[p]))
    /\ chan'[p] = Tail(chan[p])
    /\ lost' = lost

\* C12: a peer that handles a request naming frame f sends one input message
\* for every frame >= f it holds a local input for, each with the mask recorded
\* for that frame, and nothing else.
C12_ResendFromRequestedFrame ==
    [][\A p \in Peers :
         HandlesReq(p) =>
           LET f == Head(chan[p]).f
               held == {g \in DOMAIN localInputs[p] : g >= f}
               S == Sent(1 - p)
           IN /\ Len(S) = Cardinality(held)
              /\ \A k \in 1 .. Len(S) : IsIn(S[k]) /\ S[k].f \in held
              /\ \A g \in held :
                    \E k \in 1 .. Len(S) : S[k].f = g /\ S[k].m = localInputs[p][g]
              /\ localInputs' = localInputs]_vars

\* A stalled peer has in its queue a second copy of an input it already holds,
\* for a frame after the delay prefill and with a mask other than 0: the reply
\* to its request went past the frame it asked for.
C12_Witness ==
    \E p \in Peers :
       /\ stalled[p]
       /\ stallFrames[p] >= 60
       /\ \E k \in 1 .. Len(chan[p]) :
             /\ IsIn(chan[p][k])
             /\ chan[p][k].f >= DefaultInputDelayFrames
             /\ chan[p][k].m # 0
             /\ Has(remoteInputs[p], chan[p][k].f)

\* C13: when the channel drops input messages but both peers keep ticking and
\* what the channel has not dropped is delivered, a peer on frame F gets past
\* F, for every frame below the last one.
C13_StalledPeerResumes ==
    \A p \in Peers : \A F \in 0 .. LossMaxFrame - 1 :
       (frame[p] = F) ~> (frame[p] > F)

\* A peer that stalled at least 60 ticks on its frame after the channel
\* dropped a message now holds the remote input for that frame: its next tick
\* advances.
C13_Witness ==
    \E p \in Peers :
       /\ lost >= 1
       /\ stallFrames[p] >= 60
       /\ Has(remoteInputs[p], frame[p])
       /\ Has(localInputs[p], frame[p])
       /\ chan[p] = <<>>

\* Peer p ticks within a match: its stall counter goes up or its step log grows.
Ticks(p) == (Stalls(p) \/ Advances(p)) /\ matchNo'[p] = matchNo[p]

\* C14: a tick at frame F with no local input recorded for F + inputDelay
\* records the current key mask for exactly that frame and sends it with that
\* frame number; a tick that finds one recorded records and sends nothing; a
\* recorded local input is never overwritten within a match; frames
\* 0 .. inputDelay - 1 carry the mask 0.
C14_LocalInputRecordedOnce ==
    [][\A p \in Peers :
         LET sendFrame == frame[p] + inputDelay[p]
             mask == buildLocalInputMask(localKeyState[p])
             ins == SelectSeq(Sent(1 - p), IsIn)
         IN /\ Ticks(p) /\ ~Has(localInputs[p], sendFrame)
               => /\ DOMAIN localInputs'[p] = DOMAIN localInputs[p] \cup {sendFrame}
                  /\ localInputs'[p][sendFrame] = mask
                  /\ Len(ins) = 1 /\ ins[1].f = sendFrame /\ ins[1].m = mask
            /\ Ticks(p) /\ Has(localInputs[p], sendFrame)
               => /\ localInputs'[p] = localInputs[p]
                  /\ ins = <<>>
            /\ matchNo'[p] = matchNo[p]
               => \A f \in DOMAIN localInputs[p] :
                     Has(localInputs'[p], f) /\ localInputs'[p][f] = localInputs[p][f]
            /\ matchNo'[p] >= 1
               => \A f \in 0 .. inputDelay'[p] - 1 :
                     Has(localInputs'[p], f) /\ localInputs'[p][f] = 0]_vars

\* A peer recorded the mask 0 for a frame, then, with a key pressed, another
\* mask for the next frame, which has reached the other peer; it has since
\* ticked again at the same frame, with that frame's input already recorded.
C14_Witness ==
    \E p \in Peers, f \in DefaultInputDelayFrames .. MaxFrame + DefaultInputDelayFrames :
       /\ matchNo[p] = matchNo[1 - p]
       /\ Has(localInputs[p], f) /\ localInputs[p][f] = 0
       /\ Has(localInputs[p], f + 1) /\ localInputs[p][f + 1] # 0
       /\ Has(remoteInputs[1 - p], f + 1)
       /\ remoteInputs[1 - p][f + 1] = localInputs[p][f + 1]
       /\ stalled[p] /\ frame[p] + inputDelay[p] = f + 1

\* The kind of the hit that lands in a state of HitSpec.
HitKindOf(G) == IF G.fighters[0].state = "special" THEN "projectile" ELSE G.fighters[0].state

\* C15: every hit takes from the defender's health an integer amount in
\* [1, 120] (health stops at 0), for every attack and defense value of a valid
\* character and every base damage of the game (punch, kick, projectile),
\* blocked or not.
C15_DamageInRange ==
    [][frame'[0] = frame[0] + 1 =>
         \E d \in 1 .. 120 :
            arena'[0].fighters[1].hp = Max(0, arena[0].fighters[1].hp - d)]_vars

\* A blocked projectile of the weakest attacker on the strongest defender has
\* landed (the smallest damage of the game), and taken health.
C15_Witness ==
    /\ frame[0] = HitFrame + 1
    /\ arena[0].fighters[0].d.atk = 8 + 2 * StatMin
    /\ arena[0].fighters[1].d.def = 8 + 2 * StatMax
    /\ arena[0].fighters[1].state = "block"
    /\ arena[0].projectiles = <<>>
    /\ arena[0].fighters[0].state = "special"
    /\ arena[0].fighters[1].hp < arena[0].fighters[1].d.maxHP
    /\ arena[0].fighters[1].hp > arena[0].fighters[1].d.maxHP - 10

\* C20: a melee or projectile hit on a defender that is neither blocking nor
\* knocked-out takes min(health, d) from its health for some d in [1, 120],
\* puts it in state hurt at state frame 0, and leaves its stun at least 10
\* for a punch, 14 for a kick, 12 for a projectile.
C20_UnblockedHitHurts ==
    [][/\ frame'[0] = frame[0] + 1
       /\ arena[0].fighters[1].state \notin {"block", "ko"}
       => LET before == arena[0].fighters[1]
              after == arena'[0].fighters[1]
              kind == HitKindOf(arena[0])
          IN /\ \E d \in 1 .. 120 : before.hp - after.hp = Min(before.hp, d)
             /\ after.state = "hurt"
             /\ after.stateFrame = 0
             /\ after.stun >= (CASE kind = "punch" -> 10
                                 [] kind = "kick" -> 14
                                 [] kind = "projectile" -> 12)]_vars

\* A kick has landed on a defender at low health that was already hurt with 13
\* frames of stun left: its health is 0, its stun 14.
C20_Witness ==
    /\ frame[0] = HitFrame + 1
    /\ arena[0].fighters[0].state = "kick"
    /\ arena[0].fighters[0].lastHitFrame = HitFrame
    /\ arena[0].fighters[1].state = "hurt"
    /\ arena[0].fighters[1].stun = 14
    /\ arena[0].fighters[1].hp = 0

\* C16: in every reachable state of a match each fighter's health is in
\* [0, maxHP] and each fighter's meter is in [0, 100].
C16_HealthAndMeterInRange ==
    \A a \in Peers, i \in {0, 1} :
       LET f == arena[a].fighters[i]
       IN /\ 0 <= f.hp /\ f.hp <= f.d.maxHP
          /\ 0 <= f.meter /\ f.meter <= 100

\* A hit larger than the health left has floored a fighter's health at 0 and
\* fed both meters.
C16_Witness ==
    \E a \in Peers, i \in {0, 1} :
       /\ arena[a].fighters[i].hp = 0
       /\ arena[a].fighters[i].state = "hurt"
       /\ arena[a].fighters[i].meter > 35
       /\ arena[a].fighters[1 - i].meter > arena[a].fighters[i].meter

\* A fighter that spent its 35 meter on a special: its meter is 0.
C16_WitnessSpent ==
    \E a \in Peers, i \in {0, 1} :
       /\ arena[a].fighters[i].meter = 0
       /\ arena[a].projectiles # <<>>

\* C17: while hitstop is greater than 0 and no result is decided, a
\* simulation step takes one off hitstop and changes nothing else of the
\* arena (fighters, projectiles, particles, generator state, winner),
\* whatever the input masks are.
C17_HitstopFreezesStep ==
    [][\A a \in Peers :
         /\ frame'[a] = frame[a] + 1
         /\ arena[a].hitstop > 0
         /\ ~Decided(arena[a])
         => arena'[a] = [arena[a] EXCEPT !.hitstop = @ - 1]]_vars

\* A simulation in the last frame of a hitstop, undecided, with a key held and
\* the particles of the hit still alive.
C17_Witness ==
    \E a \in Peers :
       /\ arena[a].hitstop = 1
       /\ ~Decided(arena[a])
       /\ arena[a].particles # <<>>
       /\ \E i \in Peers : localKeyState[i] # {}

\* The mask pair of the stand-alone simulations (the keys are held for the
\* whole run), and the same pair with fighter i's special intent taken out.
HeldMasks == <<buildLocalInputMask(localKeyState[0]), buildLocalInputMask(localKeyState[1])>>
WithoutSpecial(masks, i) ==
    [k \in 1 .. 2 |-> IF k = i + 1 /\ HasBit(masks[k], IN_S) THEN masks[k] - IN_S ELSE masks[k]]

\* C18: a special attempted by a fighter whose meter is below 35 is refused as
\* a no-op: after the step that fighter's state, cooldowns, velocity and meter
\* and the projectile set are what the step would have left without the
\* special intent.
C18_SpecialRefusedIsNoop ==
    [][\A a \in Peers, i \in {0, 1} :
         /\ frame'[a] = frame[a] + 1
         /\ HasBit(HeldMasks[i + 1], IN_S)
         /\ arena[a].fighters[i].meter < 35
         => LET plain == stepLogic(arena[a], WithoutSpecial(HeldMasks, i), frame[a])
                got == arena'[a]
            IN /\ got.fighters[i].state = plain.fighters[i].state
               /\ got.fighters[i].cooldown = plain.fighters[i].cooldown
               /\ got.fighters[i].specialCD = plain.fighters[i].specialCD
               /\ got.fighters[i].vx = plain.fighters[i].vx
               /\ got.fighters[i].vy = plain.fighters[i].vy
               /\ got.fighters[i].meter = plain.fighters[i].meter
               /\ got.projectiles = plain.projectiles]_vars

\* Simulation a steps a frame in which fighter i's special reaches its spawn
\* frame (state frame 8 after the step's increment) and no hit lands (a hit
\* would feed the meters and could take the new projectile out at once).
SpawnMoment(a, i) ==
    /\ frame'[a] = frame[a] + 1
    /\ ~winnerTruthy(arena[a].winner)
    /\ arena[a].hitstop = 0
    /\ arena[a].fighters[i].hp > 0
    /\ arena[a].fighters[i].state = "special"
    /\ arena[a].fighters[i].stateFrame = 7
    /\ arena'[a].hitstop = 0

\* The number of fighter i's projectiles in the arena.
OwnedBy(G, i) == Cardinality({k \in 1 .. Len(G.projectiles) : G.projectiles[k].ownerIdx = i})

\* C19: at the moment a fighter's special would spawn its projectile, a meter
\* below 35 adds no projectile and stays as it is; a meter of at least 35 adds
\* exactly one projectile and goes down by exactly 35.
C19_SpawnCostsMeter ==
    [][\A a \in Peers, i \in {0, 1} :
         SpawnMoment(a, i) =>
           LET before == arena[a]
               after == arena'[a]
           IN IF before.fighters[i].meter < 35
              THEN /\ OwnedBy(after, i) = OwnedBy(before, i)
                   /\ after.fighters[i].meter = before.fighters[i].meter
              ELSE /\ OwnedBy(after, i) = OwnedBy(before, i) + 1
                   /\ after.fighters[i].meter = before.fighters[i].meter - 35]_vars

\* A fighter with exactly 35 meter has just passed the spawn frame of its
\* special: its projectile is in the arena and its meter is 0.
C19_Witness ==
    \E a \in Peers, i \in {0, 1} :
       /\ arena[a].fighters[i].state = "special"
       /\ arena[a].fighters[i].stateFrame = 8
       /\ arena[a].hitstop = 0
       /\ arena[a].fighters[i].meter = 0
       /\ Len(arena[a].projectiles) = 1
       /\ arena[a].projectiles[1].ownerIdx = i

\* A fighter with 34 meter has just passed the spawn frame of its special:
\* no projectile, meter still 34.
C19_WitnessRefused ==
    \E a \in Peers, i \in {0, 1} :
       /\ arena[a].fighters[i].state = "special"
       /\ arena[a].fighters[i].stateFrame = 8
       /\ arena[a].hitstop = 0
       /\ arena[a].fighters[i].meter = 34
       /\ arena[a].projectiles = <<>>

\* The same hit of HitSpec on the same defender, not blocking.
UnblockedHit == resolveHits([arena[0] EXCEPT !.fighters[1].state = "idle"], frame[0])
\* What a hit took or gave between the arena G before it and the arena H after.
DamageDealt(G, H) == G.fighters[1].hp - H.fighters[1].hp
AttackerGain(G, H) == H.fighters[0].meter - G.fighters[0].meter
DefenderGain(G, H) == H.fighters[1].meter - G.fighters[1].meter

\* C21: a hit on a blocking defender yields less damage, less knockback and
\* less meter (for the attacker and for the defender) than the same hit on
\* the defender not blocking.
C21_BlockReducesHit ==
    [][/\ frame'[0] = frame[0] + 1
       /\ arena[0].fighters[1].state = "block"
       => LET G == arena[0]
              blocked == arena'[0]
              open == UnblockedHit
          IN /\ DamageDealt(G, blocked) < DamageDealt(G, open)
             /\ Abs(blocked.fighters[1].vx) < Abs(open.fighters[1].vx)
             /\ AttackerGain(G, blocked) < AttackerGain(G, open)
             /\ DefenderGain(G, blocked) < DefenderGain(G, open)]_vars

\* C22: the meter a fighter gains from a hit is proportional to the damage of
\* the hit: of two hits of the same attacker (here the hit as it lands and
\* the same hit on the defender not blocking, neither meter reaching 100) the
\* gains are in the ratio of the damages, so more damage never yields less
\* meter; the meters after the hit are in [0, 100].
C22_MeterGainProportional ==
    [][frame'[0] = frame[0] + 1
       => LET G == arena[0]
              H == arena'[0]
              other == UnblockedHit
          IN /\ AttackerGain(G, H) * DamageDealt(G, other)
                  = AttackerGain(G, other) * DamageDealt(G, H)
             /\ DefenderGain(G, H) * DamageDealt(G, other)
                  = DefenderGain(G, other) * DamageDealt(G, H)
             /\ DamageDealt(G, H) <= DamageDealt(G, other)
                  => AttackerGain(G, H) <= AttackerGain(G, other)
             /\ \A i \in {0, 1} : H.fighters[i].meter \in 0 .. 100]_vars

\* C23: at match start and after every simulation step the two facings are
\* +1 and -1, and fighter 0 faces +1 exactly when its x is less than
\* fighter 1's.
C23_FacingFollowsPosition ==
    \A a \in Peers :
       LET f0 == arena[a].fighters[0]
           f1 == arena[a].fighters[1]
       IN /\ f0.facing \in {1, -1}
          /\ f1.facing = -f0.facing
          /\ f0.facing = 1 <=> f0.x < f1.x

\* The fighters have changed sides: fighter 0 has run under the jumping
\* fighter 1 and now faces left.
C23_Witness ==
    \E a \in Peers :
       /\ frame[a] > SimStartFrame
       /\ arena[a].fighters[0].x > arena[a].fighters[1].x
       /\ arena[a].fighters[0].facing = -1
       /\ arena[a].fighters[1].facing = 1

\* Simulation a steps a frame with the whole of stepLogic run (no result that
\* ends the step at once, no hitstop).
FullStep(a) ==
    /\ frame'[a] = frame[a] + 1
    /\ ~winnerTruthy(arena[a].winner)
    /\ arena[a].hitstop = 0

\* C24: within one simulation step an attacker's melee hit takes health from
\* the defender at most once (with none of the attacker's projectiles about,
\* the defender loses nothing or the damage of one punch or one kick), and no
\* hit is applied to a knocked-out defender: a fighter whose health is 0 at
\* the start of the step is knocked-out in it and ends the step knocked-out,
\* with its health and velocity untouched, and its opponent has landed no
\* melee hit.
C24_OneMeleeHitNoneOnKo ==
    [][\A a \in Peers, i \in {0, 1} :
         FullStep(a) =>
           LET before == arena[a].fighters[i]
               after == arena'[a].fighters[i]
               att == arena'[a].fighters[1 - i]
               one(b) == DamageOf(att.d.atk, after.d.def,
                                  IF att.state = "kick" THEN 32 ELSE 24, att.state, b)
           IN /\ /\ att.state \in {"punch", "kick"}
                 /\ OwnedBy(arena[a], 1 - i) = 0
                 /\ OwnedBy(arena'[a], 1 - i) = 0
                 => before.hp - after.hp
                      \in {0} \cup {Min(before.hp, one(b)) : b \in BOOLEAN}
              /\ before.hp <= 0
                 => /\ after.state = "ko"
                    /\ after.hp = before.hp
                    /\ after.vx = 0
                    /\ att.lastHitFrame = arena[a].fighters[1 - i].lastHitFrame]_vars

\* A knocked-out fighter stands within reach of its opponent's punch, in its
\* active frames, in a step that is not frozen.
C24_Witness ==
    \E a \in Peers, i \in {0, 1} :
       /\ arena[a].fighters[i].state = "ko"
       /\ arena[a].fighters[1 - i].state = "punch"
       /\ arena[a].fighters[1 - i].stateFrame \in {5, 6}
       /\ arena[a].fighters[1 - i].lastHitFrame < frame[a] - 1
       /\ arena[a].hitstop = 0
       /\ LET att == arena[a].fighters[1 - i]
              hit == getHitbox(att)
          IN aabb([x |-> hit.x2 + (IF att.facing = 1 THEN 0 ELSE -2 * hit.w),
                   y |-> 2 * hit.y, w |-> 2 * hit.w, h |-> 2 * hit.h],
                  hurtboxRect(arena[a].fighters[i]))

\* A projectile after the move of a step; whether its life has run out or its
\* rectangle has left the band of 80 px around the arena.
Moved(p) == [p EXCEPT !.x = @ + p.vx, !.life = @ - 1]
Spent(p) == p.life <= 0
Outside(p) ==
    \/ getProjectileRect(p).x < 2 * (-80 * FP)
    \/ getProjectileRect(p).x > 2 * (FIX_W + 80 * FP)
\* The elements of seq at the indices in K, in order.
RECURSIVE Pick(_, _, _)
Pick(seq, K, k) ==
    IF k > Len(seq) THEN <<>>
    ELSE (IF k \in K THEN <<seq[k]>> ELSE <<>>) \o Pick(seq, K, k + 1)

\* C25: in a step the projectiles that stay are the moved ones whose life has
\* not run out, whose rectangle is inside the band of 80 px around the arena
\* and which have not hit the opposing fighter; the others leave the set in
\* that step.  Every projectile at the end of a step has life >= 1 (so it is
\* gone after at most as many steps that are not frozen as its life at spawn)
\* and lies inside the band.
C25_ProjectilesLeaveOnTime ==
    [][\A a \in Peers :
         FullStep(a) =>
           LET G == arena[a]
               H == arena'[a]
               n == Len(G.projectiles)
               moved == [k \in 1 .. n |-> Moved(G.projectiles[k])]
           IN /\ \E K \in SUBSET (1 .. n) :
                    /\ H.projectiles = Pick(moved, K, 1)
                    /\ \A k \in 1 .. n :
                          LET p == moved[k]
                              target == H.fighters[1 - p.ownerIdx]
                          IN /\ Spent(p) \/ Outside(p) => k \notin K
                             /\ k \in K => \/ target.state = "ko"
                                           \/ ~aabb(getProjectileRect(p), hurtboxRect(target))
                             /\ k \notin K /\ ~Spent(p) /\ ~Outside(p)
                                => /\ target.state \in {"hurt", "block"}
                                   /\ target.stateFrame = 0
                                   /\ H.hitstop >= 2
              /\ \A k \in 1 .. Len(H.projectiles) :
                    H.projectiles[k].life >= 1 /\ ~Outside(H.projectiles[k])]_vars

\* Two steps on, nothing is left of the projectiles and no fighter has been
\* hit: they ran out of life or left the arena.
C25_Witness ==
    /\ frame[0] = ProjStartFrame + 2
    /\ arena[0].projectiles = <<>>
    /\ arena[0].hitstop = 0 /\ arena[0].shake = 0
    /\ \A i \in {0, 1} : arena[0].fighters[i].state = "idle"
    /\ \A i \in {0, 1} : arena[0].fighters[i].hp = arena[0].fighters[i].d.maxHP

\* A projectile has passed through the knocked-out fighter 1 and flies on.
C25_WitnessThroughKo ==
    /\ frame[0] > ProjStartFrame
    /\ arena[0].fighters[1].state = "ko"
    /\ \E k \in 1 .. Len(arena[0].projectiles) :
          /\ arena[0].projectiles[k].ownerIdx = 0
          /\ aabb(getProjectileRect(arena[0].projectiles[k]), hurtboxRect(arena[0].fighters[1]))

\* C26: a malformed payload (no JSON, no object, of unknown kind, or an "in"
\* or "req" whose frame or mask is missing or no number) is ignored: handling
\* it leaves the remote-input map, the local-input map, the frame counter and
\* the simulation state as they were and sends nothing.
C26_MalformedIgnored ==
    [][\A p \in Peers, raw \in RawMessages :
         OnRawMessage(p, raw) =>
           UNCHANGED <<remoteInputs, localInputs, frame, arena, chan>>]_vars

\* The frames at which two maps differ (in having an entry or in its value).
ChangedFrames(m1, m2) ==
    {f \in DOMAIN m1 \cup DOMAIN m2 : ~(Has(m1, f) /\ Has(m2, f) /\ m1[f] = m2[f])}

\* C27: during a match, handling an "in" message changes at most one entry of
\* the handling peer's remote-input map and handling a "req" message changes
\* no game state (it only sends); neither runs a simulation step nor changes
\* the frame counter, the fighters, the projectiles or the local-input map.
C27_MessagesOnlyWriteRemoteInputs ==
    [][\A p \in Peers :
         running[p] /\ chan[p] # <<>> /\ Head(chan[p]).t \in {"in", "req"} /\ OnMessage(p)
         => /\ UNCHANGED <<frame, arena, localInputs, stepLog, stalled, stallFrames,
                           running, screen, localKeyState>>
            /\ remoteInputs'[1 - p] = remoteInputs[1 - p]
            /\ Head(chan[p]).t = "in"
               => /\ Cardinality(ChangedFrames(remoteInputs[p], remoteInputs'[p])) <= 1
                  /\ chan'[1 - p] = chan[1 - p]
            /\ Head(chan[p]).t = "req" => UNCHANGED remoteInputs]_vars

\* A peer has recorded a remote input with a key held from an "in" message,
\* and its "req" has been handled: an input it already has is in flight to it
\* again.
C27_Witness ==
    \E p \in Peers :
       /\ running[p]
       /\ \E f \in DOMAIN remoteInputs[p] : remoteInputs[p][f] # 0
       /\ \E k \in 1 .. Len(chan[p]) :
             /\ chan[p][k].t = "in"
             /\ Has(remoteInputs[p], chan[p][k].f)
             /\ frame[p] <= chan[p][k].f

\* The functions of the game that stepLogic calls in a step that is not
\* frozen, and those of them that renderer.js defines: it holds no definition
\* of integrateFighter.
StepLogicCalls ==
    {"clamp", "getHurtbox", "getHitbox", "aabb", "hurtboxRect", "applyDamage",
     "spawnProjectile", "getProjectileRect", "updateFacing", "integrateFighter"}
DefinedInRenderer == StepLogicCalls \ {"integrateFighter"}

\* stepLogic on arena G raises: a step that is not frozen reaches, in the
\* update of fighter 0, the call of every function of StepLogicCalls that is
\* made on every path (integrateFighter at line 1184), and the call of a name
\* without definition raises a ReferenceError.
stepRaises(G) ==
    /\ ~winnerTruthy(G.winner)
    /\ G.hitstop = 0
    /\ "integrateFighter" \notin DefinedInRenderer

\* C28: every simulation step of a running match (no result decided,
\* hitstop 0) completes without raising an error, and no tick puts the core in
\* a fatal state: a tick of a running peer either advances the frame counter
\* by one or leaves it and reports a stall, and the peer keeps running.
C28_StepsNeverRaise ==
    [][\A p \in Peers :
         running[p] /\ Ticks(p)
         => /\ running'[p]
            /\ \/ frame'[p] = frame[p] /\ stalled'[p]
               \/ frame'[p] = frame[p] + 1 /\ ~stalled'[p] /\ ~stepRaises(arena[p])]_vars

\* C29: one call of the game loop runs at most 12 ticks (the accumulator is
\* capped at 200 ms and a tick takes 1/60 s from it), however much real time
\* has passed since the call before, and leaves less than one timestep in the
\* accumulator.
C29_CatchUpBounded ==
    [][/\ frame'[0] - frame[0] <= 12
       /\ frame'[0] - frame[0] >= 0
       /\ acc' >= 0 /\ acc' < FRAME_MS
       /\ FRAME_MS * (frame'[0] - frame[0]) + acc' <= acc + (lastTime' - lastTime)]_vars

\* A second of real time has passed since the start and 12 frames have been
\* run: a single call after a long pause.
C29_Witness ==
    /\ lastTime = 3000
    /\ frame[0] = LoopStartFrame + 12
    /\ acc = 0

\* Calls less than a frame apart: the accumulator holds the rest.
C29_WitnessRest ==
    /\ lastTime = 120
    /\ frame[0] = LoopStartFrame + 2
    /\ acc = 20

\* C30: when a match starts, host and joiner initialise it with the same seed
\* and the same two characters in every field the game uses (stats, move
\* parameters, and what is derived from them): the joiner's validation of the
\* characters in the start message accepts them and yields the characters the
\* host uses, and validating a character that a validation has produced gives
\* that character back.
C30_SameStartOnBothPeers ==
    /\ screen[0] = "game" /\ screen[1] = "game" /\ frame[0] = 0 /\ frame[1] = 0
       => arena[0] = arena[1]
    /\ screen[0] = "game" /\ screen[1] = "lobby"
       => \E k \in 1 .. Len(chan[1]) : chan[1][k].t = "start"
    /\ \A p \in Peers :
          remoteHello[p] # NoChar
          => /\ validateAndNormalizeCharacter(asJson(remoteHello[p])).ok
             /\ validateAndNormalizeCharacter(asJson(remoteHello[p])).character
                  = remoteHello[p]

\* Both peers are in the match, with characters that came from pasted ones
\* whose numbers were rounded and clamped (health 9 from 9.5 or 12, projectile
\* speed 13 from 12.5).
C30_Witness ==
    /\ screen[0] = "game" /\ screen[1] = "game"
    /\ arena[1].fighters[0].char.stats.health = 9
    /\ arena[1].fighters[0].char.moves.projectileSpeed = 13
    /\ arena[1].fighters[1].char.stats.attack = 5
    /\ arena[1].fighters[1].char.moves.projectileSpeed = 6
    /\ arena[1].seed = 2147483647

\* The derived value that corresponds to a stat, and the names of all of them.
DerivedOf(k) ==
    CASE k = "health" -> "maxHP" [] k = "attack" -> "atk" [] k = "defense" -> "def"
      [] k = "speed" -> "run" [] k = "jump" -> "jump" [] k = "special" -> "meterGain"
      [] k = "range" -> "range"
DerivedNames == {"maxHP", "atk", "def", "run", "jump", "meterGain", "range", "projBonus"}

\* C31: the derived values of a fighter are a function of its seven stats
\* alone, and for stats in [3, 9] one more of a single stat lowers no derived
\* value and raises the derived value that corresponds to that stat.
C31_DerivedStatsMonotone ==
    [][\A k \in StatNames :
         activeChar'[0].stats = [activeChar[0].stats EXCEPT ![k] = @ + 1]
         => LET d == arena[0].fighters[0].d
                e == arena'[0].fighters[0].d
            IN /\ \A n \in DerivedNames : e[n] >= d[n]
               /\ e[DerivedOf(k)] > d[DerivedOf(k)]
               /\ e = derivedStats(activeChar'[0].stats)
               /\ arena'[0].fighters[1].d = arena[0].fighters[1].d]_vars

\* The second match is played with a character whose health went from 8 to 9.
C31_Witness ==
    /\ matchNo[0] = 2
    /\ activeChar[0].stats.health = StatMax
    /\ arena[0].fighters[0].d.maxHP = 900 + 9 * 55
    /\ statSum(activeChar[0].stats) = Budget

\* Fighter i of simulation a starts a punch, a kick or a special in this
\* step: the start sets the cooldown to 10 or 14 or the special cooldown to 26,
\* and nothing else in a step does (a cooldown of 11 falls to 10).
PunchStarts(a, i) ==
    arena'[a].fighters[i].cooldown = 10 /\ arena[a].fighters[i].cooldown # 11
KickStarts(a, i) == arena'[a].fighters[i].cooldown = 14
SpecialStarts(a, i) == arena'[a].fighters[i].specialCD = 26
AttackStarts(a, i) == PunchStarts(a, i) \/ KickStarts(a, i) \/ SpecialStarts(a, i)
\* The mask of fighter i in the step just taken by simulation 0.
LastMask(i) == simInputs'[Len(simInputs')][i + 1]

C32_WitnessRefused ==
    /\ arena[0].fighters[0].state = "special"
    /\ arena[0].fighters[0].stateFrame >= 2
    /\ arena[0].fighters[0].cooldown = 0
    /\ simInputs = <<<<IN_P, IN_P>>>>

\* The jump buffer and the ground grace of fighter i when the actions of the
\* step just taken were selected (after the timers of that step).
BufAtGate(i) ==
    IF HasBit(LastMask(i), IN_J) THEN 6 ELSE Max(0, arena[0].fighters[i].jumpBuf - 1)
CoyoteAtGate(i) ==
    IF arena[0].fighters[i].onGround THEN 6 ELSE Max(0, arena[0].fighters[i].coyote - 1)
\* A counter that was not zero at the selection is zero after the step: only
\* the start of a jump does that.
GraceSpent(i) == CoyoteAtGate(i) > 0 /\ arena'[0].fighters[i].coyote = 0
BufferSpent(i) == BufAtGate(i) > 0 /\ arena'[0].fighters[i].jumpBuf = 0

\* C33: a fighter starts a jump only in a step where its jump buffer and its
\* ground grace are both non-zero, and the start zeroes both and takes it off
\* the ground; a fighter in the air with no ground grace left starts no jump
\* and gets no grace back before it is on the ground again.
C33_JumpNeedsBufferAndGrace ==
    [][\A i \in {0, 1} :
         FullStep(0)
         => LET f == arena[0].fighters[i]
                g == arena'[0].fighters[i]
            IN /\ GraceSpent(i) <=> BufferSpent(i)
               /\ GraceSpent(i)
                  => /\ ~g.onGround /\ g.vy < 0
                     /\ g.jumpBuf = 0 /\ g.coyote = 0
                     /\ f.state \notin {"ko", "hurt", "punch", "kick", "special"}
               /\ ~f.onGround /\ f.coyote = 0
                  => ~BufferSpent(i) /\ g.coyote = 0]_vars

\* Fighter 0 is falling, with no ground grace and the jump key just pressed:
\* the jump waits in the buffer.
C33_Witness ==
    /\ ~arena[0].fighters[0].onGround
    /\ arena[0].fighters[0].vy > 0
    /\ arena[0].fighters[0].coyote = 0
    /\ arena[0].fighters[0].jumpBuf = 6

\* Fighter 0 has landed from a jump and has jumped again from the buffer.
C33_WitnessAgain ==
    /\ frame[0] - JumpStartFrame >= 42
    /\ ~arena[0].fighters[0].onGround
    /\ arena[0].fighters[0].vy < -1500
    /\ arena[0].fighters[0].jumpBuf = 0
    /\ simInputs = <<<<0, 0>>>>

\* C34: once a winner has been recorded for a match, the recorded result
\* never changes to a different value in a later step of that match.
C34_ResultNeverChanges ==
    [][\A a \in Peers :
         arena[a].winner # null /\ matchNo'[a] = matchNo[a]
         => arena'[a].winner = arena[a].winner]_vars

\* C35 as stated, with the frame counter read after the tick: after every tick
\* the local-input map holds every frame from 0 through frame + inputDelay.
C35_LocalInputsThroughFramePlusDelay ==
    [][\A p \in Peers :
         Ticks(p) => \A f \in 0 .. frame'[p] + inputDelay'[p] :
                       Has(localInputs'[p], f)]_vars

\* The requests a step of peer p hands to the channel.
ReqsSent(p) == {Sent(1 - p)[k].f : k \in {j \in 1 .. Len(Sent(1 - p)) : IsReq(Sent(1 - p)[j])}}

\* C35: after every tick the local-input map holds exactly the frames from 0
\* through F + inputDelay, where F is the frame the tick began at (the frame
\* counter itself after a stalled tick, one less after a tick that stepped);
\* so a tick stalls only when the remote input of its frame is missing, and a
\* request names the stalled frame, whose remote input is missing.
C35_LocalInputsGapless ==
    [][\A p \in Peers :
         Ticks(p) =>
           /\ DOMAIN localInputs'[p] = 0 .. frame[p] + inputDelay[p]
           /\ Stalls(p) => ~Has(remoteInputs[p], frame[p])
           /\ \A f \in ReqsSent(p) : f = frame[p] /\ ~Has(remoteInputs'[p], f)]_vars

\* A peer past frame 0 has stalled for 60 ticks on a missing remote input,
\* with its local inputs in place.
C35_Witness ==
    \E p \in Peers :
       /\ frame[p] >= 1 /\ stallFrames[p] = 60
       /\ ~Has(remoteInputs[p], frame[p])
       /\ DOMAIN localInputs[p] = 0 .. frame[p] + inputDelay[p]
       /\ \E k \in 1 .. Len(chan[1 - p]) : IsReq(chan[1 - p][k])

\* Both peers have reset for the same match.
InSameMatch == matchNo[0] >= 1 /\ matchNo[0] = matchNo[1]

\* The span of the local inputs peer p holds from frame f on.
HeldSpan(p, f) ==
    LET held == {g \in DOMAIN localInputs[p] : g >= f}
    IN IF held = {} THEN 0 ELSE (CHOOSE g \in held : \A h \in held : h <= g) - f + 1

\* C36: in a match neither peer's frame counter is more than the other
\* peer's input delay + 1 ahead of the other peer's frame counter, and the
\* local inputs a peer holds from a frame the other peer requests on span
\* fewer than 180 frames.
C36_FrameLeadBounded ==
    InSameMatch =>
      \A p \in Peers :
         /\ frame[p] <= frame[1 - p] + inputDelay[1 - p] + 1
         /\ chan[p] # <<>> /\ IsReq(Head(chan[p])) /\ Head(chan[p]).mt = matchNo[p]
            => HeldSpan(p, Head(chan[p]).f) < 180

\* C37: an input message the peer sent for another match than the one the
\* receiver is in (an earlier match, or before the peer handled the start of
\* the current one) is never recorded in the receiver's remote-input map.
C37_NoStaleRemoteInput ==
    [][\A p \in Peers :
         /\ chan[p] # <<>>
         /\ chan'[p] = Tail(chan[p])
         /\ IsIn(Head(chan[p]))
         /\ Head(chan[p]).mt # matchNo[p]
         => remoteInputs'[p] = remoteInputs[p]]_vars

\* A pending timer of peer p fires and stops its running loop.
TimerStops(p) ==
    /\ stopTimers[p] # <<>> /\ stopTimers'[p] = Tail(stopTimers[p])
    /\ running[p] /\ ~running'[p]

\* C38: a stop timer set by the win detection of one match never stops the
\* loop of a later match: the timer that stops a running loop was set by the
\* match that is running.
C38_TimerStopsOwnMatchOnly ==
    [][\A p \in Peers : TimerStops(p) => Head(stopTimers[p]) = matchNo[p]]_vars


====
